---- MODULE Spec2Model ----
(***************************************************************************)
(* Load-generation core of the HTTP benchmarking tool (src/client.rs,      *)
(* src/client_h3.rs).                                                      *)
(*                                                                         *)
(* Spec     the workload scheduler of the slow path: the token channel,    *)
(*          the emitters, the H1 workers, the H2/H3 connection-workers and *)
(*          their stream tasks, the deadline flag / semaphore, and the     *)
(*          entry functions work, work_until, work_until_with_qps.         *)
(*                                                                         *)
(* SpecReq  the request engine of one worker: work_http1 with its cached  *)
(*          send-handle, dial, re-dial and redirect() frames, and the      *)
(*          H2/H3 connection with work_http2_once / work_http3_once, on a  *)
(*          clock that advances between any two steps.                     *)
(*                                                                         *)
(* SpecPace the paced emitters (work_with_qps, work_until_with_qps and     *)
(*          their latency-correction variants) with one worker that serves *)
(*          the tokens; SpecPaceFair adds weak fairness of the emitter and *)
(*          of the clock.                                                  *)
(*                                                                         *)
(* SpecConn the connect functions client_http1 / connect_http2 /           *)
(*          connect_http3, step by step, and the request Client::request   *)
(*          builds.                                                        *)
(*                                                                         *)
(* SpecFast the fast path: fast::work and fast::work_until with their      *)
(*          workers, connection-workers and stream tasks.                  *)
(*                                                                         *)
(* Every await of the source is a suspension point: one action is one poll *)
(* of a task, from the await that woke it to the next await it suspends on *)
(* (or to the task's end).                                                 *)
(***************************************************************************)
EXTENDS Naturals, Integers, FiniteSets, Sequences, TLC

\* ------------------------------------------------------------------ bounds

\* Largest n_connections * n_http2_parallel of a run.
MaxStreams == 2
\* Largest n_tasks; in deadline mode the emitters stop after this many tokens.
MaxTasks == 2
\* Capacity of the bounded token channel of work_until (5000 in the source).
ChanCap == 1

\* Last instant of the clock: Instant::now() takes the values 0 .. MaxClock.
MaxClock == 3

\* Largest redirect_limit of a run.
MaxRedirectLimit == 2

\* Largest 1/qps and largest burst period, in clock ticks.
MaxPeriod == 2

\* Largest number of bytes in the body of a response.
MaxBody == 1

\* ------------------------------------------------------- error classifier

\* What work_http1 / work_http2 / work_http3 can return, by engine.
RequestOutcomes(wt) ==
    CASE wt = "H1" -> {"Ok", "Timeout", "TooManyRedirect", "UrlParse",
                       "Hyper", "Io", "IoEmfile"}
      [] wt = "H2" -> {"Ok", "Timeout", "Hyper", "Io", "IoEmfile"}
      [] wt = "H3" -> {"Ok", "Timeout", "H3", "Io", "IoEmfile"}

\* What setup_http2 / setup_http3 can fail with.
DialErrors == {"Timeout", "IoEmfile"}

is_too_many_open_files(res) == res = "IoEmfile"

is_cancel_error(res) == res = "Deadline" \/ is_too_many_open_files(res)

is_hyper_error(res) == res \in {"Io", "IoEmfile", "Hyper"}

is_h3_error(res) == res \in {"H3", "Io", "IoEmfile"}

\* The reconnect predicate work_http2_once / work_http3_once applies.
is_reconnect_error(wt, res) ==
    IF wt = "H3" THEN is_h3_error(res) ELSE is_hyper_error(res)

\* ------------------------------------------------------------------- state

VARIABLES
    cfg,              \* the arguments of the entry function
    rx_len,           \* tokens queued in the token channel
    tx_open,          \* the channel's sender is alive
    emitted,          \* tokens sent so far
    emit_pc,          \* the emitter: "idle", "run", "check", "sleep", "done"
    deadline_passed,  \* Instant::now() > dead_line
    is_end,           \* parallel_work_http1's AtomicBool
    s_closed,         \* parallel_work_http2/3's semaphore is closed
    cancel_token,     \* work_until's CancellationToken is cancelled
    main_pc,          \* the entry function: "par", "emit", "join", "cancel", "done"
    join_i,           \* index of the worker future the entry function awaits
    worker,           \* H1 worker tasks
    cw,               \* H2/H3 connection-worker tasks
    streams,          \* H2/H3 stream tasks that are spawned and not yet reaped
    nrep,             \* results sent on the report channel
    cancel_seen,      \* some request returned a cancel-class error
    now,              \* Instant::now()
    client,           \* the Client's disable_keepalive, redirect_limit, timeout
    client_state,     \* ClientStateHttp1.send_request: the cached send-handle
    connection,       \* H2/H3: the ConnectionTime of the live connection
    rq,               \* the locals of the request or dial in progress
    result,           \* the last record sent on the report channel
    nreq,             \* records sent by the request engine
    emitter,          \* the paced emitter of a work*_with_qps* entry function
    tokens,           \* the tokens queued in its channel, oldest first
    consumer,         \* the worker that serves the paced tokens
    px,               \* the dial in progress and the request built on it
    fast,             \* the fast path: its counter, flags, workers and batches
    h3                \* an H3 connection-worker and the drivers it has spawned

schedVars == <<rx_len, tx_open, emitted, emit_pc, deadline_passed, is_end,
               s_closed, cancel_token, main_pc, join_i, worker, cw, streams,
               nrep, cancel_seen>>

reqVars == <<now, client, client_state, connection, rq, result, nreq>>

paceVars == <<emitter, tokens, consumer>>

connVars == <<px>>

fastVars == <<fast, h3>>

vars == <<cfg, schedVars, reqVars, paceVars, connVars, fastVars>>

\* What the actions of one part leave alone.
notSched == <<reqVars, paceVars, connVars, fastVars>>

notReq == <<cfg, schedVars, paceVars, connVars, fastVars>>

notPace == <<cfg, schedVars, client, client_state, connection, rq, result,
             nreq, connVars, fastVars>>

Conns == 1 .. cfg.n_connections

has_deadline == cfg.entry \in {"work_until", "work_until_with_qps"}

IsH1 == cfg.work_type = "H1"

Configs ==
    { c \in [ work_type : {"H1", "H2", "H3"},
              entry : {"work", "work_until", "work_until_with_qps"},
              wait_ongoing : BOOLEAN,
              n_connections : 1 .. MaxStreams,
              n_http2_parallel : 1 .. MaxStreams,
              n_tasks : 0 .. MaxTasks ] :
        /\ c.n_connections * c.n_http2_parallel <= MaxStreams
        /\ c.work_type = "H1" => c.n_http2_parallel = 1
        /\ c.entry = "work" => c.wait_ongoing
        /\ c.entry # "work" => c.n_tasks = MaxTasks }

SchedInit ==
    /\ rx_len = 0
    /\ tx_open = TRUE
    /\ emitted = 0
    /\ emit_pc = CASE cfg.entry = "work" -> "idle"
                   [] cfg.entry = "work_until" -> "run"
                   [] OTHER -> "check"
    /\ deadline_passed = FALSE
    /\ is_end = FALSE
    /\ s_closed = FALSE
    /\ cancel_token = FALSE
    /\ main_pc = "par"
    /\ join_i = 1
    /\ worker = [i \in 1 .. cfg.n_connections |->
                    [pc |-> IF cfg.work_type = "H1" THEN "recv" ELSE "none",
                     outstanding |-> 0, deadline |-> 0]]
    /\ cw = [i \in 1 .. cfg.n_connections |->
                    [pc |-> IF cfg.work_type = "H1" THEN "none" ELSE "dial",
                     j |-> 1, gone |-> FALSE, err |-> "none",
                     deadlines |-> 0]]
    /\ streams = {}
    /\ nrep = 0
    /\ cancel_seen = FALSE

\* The authorities a URL can have: the generated URLs have authority "A", a
\* Location header names "A" or "B".
Authorities == {"A", "B"}

\* Client: the fields that drive one request.
Clients ==
    [ disable_keepalive : BOOLEAN,
      redirect_limit : 0 .. MaxRedirectLimit,
      timeout : BOOLEAN ]

\* The scheduler runs its requests as single steps; the client's fields do
\* not matter to it.
DefaultClient ==
    [disable_keepalive |-> FALSE, redirect_limit |-> 0, timeout |-> FALSE]

\* The request engine serves one worker (H1) or one connection with one
\* stream (H2/H3) in closed-loop count mode.
RequestConfigs ==
    { c \in Configs : /\ c.entry = "work"
                      /\ c.n_connections = 1
                      /\ c.n_http2_parallel = 1
                      /\ c.n_tasks = MaxTasks }

\* Option values are sets with at most one element: None is {}.
\* The locals of work_http1 / work_http2 / work_http3 and of the redirect
\* frames they call, between two requests.
\*   pc            "idle", "dns", "handshake", "ready", "sent", "body"
\*   hops          redirect() frames entered past the limit test
\*   limit         the limit argument of the next redirect() call
\*   url           authority of the URL being requested
\*   send_request  authority of the send-handle in hand, "none" while dialing
\*   base          outermost send_request_base that is Some, or "none"
\*   loc           the response in hand carries a Location header
\*   opened        who dialed during this request
\*   cached        work_http1 found a handle in client_state and took it
\*   ready_failed  instant of the last send_request.ready() of work_http1
\*                 that failed, None if none did
\*   host          Host header of the request of this hop: "static" for the
\*                 one of the client's header map, else the authority that
\*                 redirect() has put in its place
\*   resp          status and len_bytes of work_http1's frame and of every
\*                 redirect() frame that has its response head, outermost
\*                 first
IdleRq ==
    [ pc |-> "idle", hops |-> 0, limit |-> 0, url |-> "none",
      send_request |-> "none", base |-> "none", start |-> 0,
      dns_lookup |-> {}, first_byte |-> {}, connection_time |-> {},
      loc |-> FALSE, opened |-> {}, cached |-> FALSE, host |-> "none",
      ready_failed |-> {}, resp |-> <<>> ]

\* No record yet, or the record was consumed.
NoResult ==
    [ kind |-> "none", start |-> 0, first_byte |-> {}, end |-> 0,
      connection_time |-> {}, hops |-> 0, loc |-> FALSE, opened |-> {},
      cached |-> FALSE, host |-> "none", ready_failed |-> {},
      status |-> 0, len_bytes |-> 0 ]

ReqInit ==
    /\ now = 0
    /\ client_state = "none"
    /\ connection = {}
    /\ rq = IdleRq
    /\ result = NoResult
    /\ nreq = 0

\* The parts of the state a specification does not use stay as they are here.
Unused ==
    /\ emitter = "none"
    /\ tokens = <<>>
    /\ consumer = "none"
    /\ px = "none"
    /\ fast = "none"
    /\ h3 = "none"

Init ==
    /\ cfg \in Configs
    /\ client = DefaultClient
    /\ SchedInit
    /\ ReqInit
    /\ Unused

InitReq ==
    /\ cfg \in RequestConfigs
    /\ client \in Clients
    /\ SchedInit
    /\ ReqInit
    /\ Unused

\* ------------------------------------------------- entry function, emitters

\* Abort mode: work_until* with H1 and wait_ongoing_requests_after_deadline = false.
AbortMode == IsH1 /\ has_deadline /\ ~cfg.wait_ongoing

\* The clock passes dead_line.
DeadlinePasses ==
    /\ has_deadline
    /\ ~deadline_passed
    /\ deadline_passed' = TRUE
    /\ UNCHANGED <<cfg, rx_len, tx_open, emitted, emit_pc, is_end, s_closed,
                   cancel_token, main_pc, join_i, worker, cw, streams, nrep,
                   cancel_seen>>
    /\ UNCHANGED notSched

\* parallel_work_http1 / parallel_work_http2 / parallel_work_http3 return the
\* spawned futures: at once without a deadline, else after sleep_until(deadline)
\* and the store of is_end (H1) or the close of the semaphore (H2/H3).
ParallelWorkReturns ==
    /\ main_pc = "par"
    /\ has_deadline => deadline_passed
    /\ is_end' = (has_deadline /\ IsH1)
    /\ s_closed' = (has_deadline /\ ~IsH1)
    /\ main_pc' = IF cfg.entry = "work" THEN "emit" ELSE "join"
    /\ UNCHANGED <<cfg, rx_len, tx_open, emitted, emit_pc, deadline_passed,
                   cancel_token, join_i, worker, cw, streams, nrep, cancel_seen>>
    /\ UNCHANGED notSched

\* Every receiver of the token channel has been dropped: parallel_work_* has
\* returned and dropped its own, and every task that held a clone has ended.
NoReceiver ==
    /\ main_pc # "par"
    /\ streams = {}
    /\ \A i \in Conns :
          IF IsH1 THEN worker[i].pc = "done" ELSE cw[i].pc = "done"

\* n_tasks_emitter / work_queue of the fixed-N entry functions: one tx.send.
EmitCount ==
    /\ main_pc = "emit"
    /\ emitted < cfg.n_tasks
    /\ ~NoReceiver
    /\ rx_len' = rx_len + 1
    /\ emitted' = emitted + 1
    /\ UNCHANGED <<cfg, tx_open, emit_pc, deadline_passed, is_end, s_closed,
                   cancel_token, main_pc, join_i, worker, cw, streams, nrep,
                   cancel_seen>>
    /\ UNCHANGED notSched

\* ... tx.send fails because no receiver is left: `?` ends the emitter with
\* the error, tx is dropped with it, and unwrap() panics in the entry
\* function.
EmitCountFail ==
    /\ main_pc = "emit"
    /\ emitted < cfg.n_tasks
    /\ NoReceiver
    /\ tx_open' = FALSE
    /\ main_pc' = "panicked"
    /\ UNCHANGED <<cfg, rx_len, emitted, emit_pc, deadline_passed, is_end,
                   s_closed, cancel_token, join_i, worker, cw, streams, nrep,
                   cancel_seen>>
    /\ UNCHANGED notSched

\* ... and its end: drop(tx), then the entry function joins the futures.
EmitCountDone ==
    /\ main_pc = "emit"
    /\ emitted = cfg.n_tasks
    /\ tx_open' = FALSE
    /\ emit_pc' = "done"
    /\ main_pc' = "join"
    /\ UNCHANGED <<cfg, rx_len, emitted, deadline_passed, is_end, s_closed,
                   cancel_token, join_i, worker, cw, streams, nrep, cancel_seen>>
    /\ UNCHANGED notSched

\* endless_emitter: the send branch of its select!.
EndlessEmit ==
    /\ emit_pc = "run"
    /\ rx_len < ChanCap
    /\ emitted < MaxTasks
    /\ rx_len' = rx_len + 1
    /\ emitted' = emitted + 1
    /\ UNCHANGED <<cfg, tx_open, emit_pc, deadline_passed, is_end, s_closed,
                   cancel_token, main_pc, join_i, worker, cw, streams, nrep,
                   cancel_seen>>
    /\ UNCHANGED notSched

\* endless_emitter: the cancelled() branch of its select!; tx is dropped.
EndlessExit ==
    /\ emit_pc = "run"
    /\ cancel_token
    /\ emit_pc' = "done"
    /\ tx_open' = FALSE
    /\ UNCHANGED <<cfg, rx_len, emitted, deadline_passed, is_end, s_closed,
                   cancel_token, main_pc, join_i, worker, cw, streams, nrep,
                   cancel_seen>>
    /\ UNCHANGED notSched

\* work_until_with_qps, Qps emitter: the deadline test at the top of the loop.
QpsCheck ==
    /\ emit_pc = "check"
    /\ emit_pc' = IF deadline_passed THEN "done" ELSE "sleep"
    /\ tx_open' = ~deadline_passed
    /\ UNCHANGED <<cfg, rx_len, emitted, deadline_passed, is_end, s_closed,
                   cancel_token, main_pc, join_i, worker, cw, streams, nrep,
                   cancel_seen>>
    /\ UNCHANGED notSched

\* ... its sleep_until ends and it sends one token. Past MaxTasks tokens the
\* next scheduled instant lies beyond the deadline.
QpsEmit ==
    /\ emit_pc = "sleep"
    /\ emitted < MaxTasks \/ deadline_passed
    /\ rx_len' = rx_len + 1
    /\ emitted' = emitted + 1
    /\ emit_pc' = "check"
    /\ UNCHANGED <<cfg, tx_open, deadline_passed, is_end, s_closed,
                   cancel_token, main_pc, join_i, worker, cw, streams, nrep,
                   cancel_seen>>
    /\ UNCHANGED notSched

\* A JoinHandle that is ready whatever its task does.
FinishedAny(i) == TRUE

\* The task the entry function awaits has ended.
Finished(i) ==
    IF IsH1 THEN worker[i].pc = "done" ELSE cw[i].pc = "done"

\* for f in futures { let _ = f.await; }
MainJoin ==
    /\ main_pc = "join"
    /\ ~AbortMode
    /\ join_i <= cfg.n_connections
    /\ Finished(join_i)
    /\ join_i' = join_i + 1
    /\ UNCHANGED <<cfg, rx_len, tx_open, emitted, emit_pc, deadline_passed,
                   is_end, s_closed, cancel_token, main_pc, worker, cw,
                   streams, nrep, cancel_seen>>
    /\ UNCHANGED notSched

\* A join error that is reported whatever its kind.
is_any_join_result(w) == TRUE

\* f.abort() on worker task w: a task that has finished keeps its result, a
\* task suspended at an await is dropped there, its request with it.
Aborted(w) ==
    IF w.pc = "done" THEN w
    ELSE [w EXCEPT !.pc = "cancelled", !.outstanding = 0]

\* f.await of the aborted task w is Err(e) with e.is_cancelled().
is_cancelled(w) == w.pc = "cancelled"

\* f.abort(); if f.await is Err(e) with e.is_cancelled(), send Err(Deadline).
\* A task that is suspended at an await is dropped there, its request with it.
MainAbort ==
    /\ main_pc = "join"
    /\ AbortMode
    /\ join_i <= cfg.n_connections
    /\ LET w == Aborted(worker[join_i])
       IN IF is_cancelled(w)
            THEN /\ worker' = [worker EXCEPT ![join_i] =
                                   [w EXCEPT !.deadline = @ + 1]]
                 /\ nrep' = nrep + 1
            ELSE /\ worker' = [worker EXCEPT ![join_i] = w]
                 /\ nrep' = nrep
    /\ join_i' = join_i + 1
    /\ UNCHANGED <<cfg, rx_len, tx_open, emitted, emit_pc, deadline_passed,
                   is_end, s_closed, cancel_token, main_pc, cw, streams,
                   cancel_seen>>
    /\ UNCHANGED notSched

\* An entry function that cancels its emitter before it joins the futures.
MainJoinedEarly ==
    /\ main_pc = "join"
    /\ cancel_token' = (cfg.entry = "work_until")
    /\ main_pc' = IF cfg.entry = "work_until" THEN "cancel" ELSE "done"
    /\ UNCHANGED <<cfg, rx_len, tx_open, emitted, emit_pc, deadline_passed,
                   is_end, s_closed, join_i, worker, cw, streams, nrep,
                   cancel_seen>>
    /\ UNCHANGED notSched

\* All futures are joined: work_until cancels its emitter and awaits it, the
\* other entry functions return.
MainJoined ==
    /\ main_pc = "join"
    /\ join_i > cfg.n_connections
    /\ cancel_token' = (cfg.entry = "work_until")
    /\ main_pc' = IF cfg.entry = "work_until" THEN "cancel" ELSE "done"
    /\ UNCHANGED <<cfg, rx_len, tx_open, emitted, emit_pc, deadline_passed,
                   is_end, s_closed, join_i, worker, cw, streams, nrep,
                   cancel_seen>>
    /\ UNCHANGED notSched

\* let _ = emitter_handle.await;
MainEmitterJoined ==
    /\ main_pc = "cancel"
    /\ emit_pc = "done"
    /\ main_pc' = "done"
    /\ UNCHANGED <<cfg, rx_len, tx_open, emitted, emit_pc, deadline_passed,
                   is_end, s_closed, cancel_token, join_i, worker, cw, streams,
                   nrep, cancel_seen>>
    /\ UNCHANGED notSched

\* ------------------------------------------------------------- H1 workers

\* rx.recv() yields a token: the worker calls work_http1.
H1Recv(i) ==
    /\ worker[i].pc = "recv"
    /\ rx_len > 0
    /\ rx_len' = rx_len - 1
    /\ worker' = [worker EXCEPT ![i].pc = "req", ![i].outstanding = @ + 1]
    /\ UNCHANGED <<cfg, tx_open, emitted, emit_pc, deadline_passed, is_end,
                   s_closed, cancel_token, main_pc, join_i, cw, streams, nrep,
                   cancel_seen>>
    /\ UNCHANGED notSched

\* rx.recv() fails: the channel is drained and its sender gone.
H1RecvClosed(i) ==
    /\ worker[i].pc = "recv"
    /\ rx_len = 0
    /\ ~tx_open
    /\ worker' = [worker EXCEPT ![i].pc = "done"]
    /\ UNCHANGED <<cfg, rx_len, tx_open, emitted, emit_pc, deadline_passed,
                   is_end, s_closed, cancel_token, main_pc, join_i, cw, streams,
                   nrep, cancel_seen>>
    /\ UNCHANGED notSched

\* work_http1 returns res: report it, then break or loop.
H1Complete(i, res) ==
    /\ worker[i].pc = "req"
    /\ nrep' = nrep + 1
    /\ cancel_seen' = (cancel_seen \/ is_cancel_error(res))
    /\ worker' = [worker EXCEPT
            ![i].outstanding = @ - 1,
            ![i].pc = IF is_cancel_error(res) \/ has_deadline \/ is_end
                        THEN "done" ELSE "recv"]
    /\ UNCHANGED <<cfg, rx_len, tx_open, emitted, emit_pc, deadline_passed,
                   is_end, s_closed, cancel_token, main_pc, join_i, cw, streams>>
    /\ UNCHANGED notSched

\* ------------------------------- H2/H3 connection-workers and stream tasks

\* A connection that gets one stream task only.
SpawnOneStream(i) ==
    { [s EXCEPT !.old = (s.old \/ s.c = i)] : s \in streams }
    \cup { [c |-> i, k |-> 1, old |-> FALSE, pc |-> "recv", det |-> FALSE] }

\* The stream tasks spawned on connection-worker i's new connection; a task
\* of an earlier connection of i that still exists is marked old.
SpawnStreams(i) ==
    { [s EXCEPT !.old = (s.old \/ s.c = i)] : s \in streams }
    \cup { [c |-> i, k |-> k, old |-> FALSE, pc |-> "recv", det |-> FALSE] :
             k \in 1 .. cfg.n_http2_parallel }

\* setup_http2 / setup_http3 succeeds: spawn the stream tasks, start joining.
CwDialOk(i) ==
    /\ cw[i].pc = "dial"
    /\ streams' = SpawnStreams(i)
    /\ cw' = [cw EXCEPT ![i].pc = "join", ![i].j = 1, ![i].gone = FALSE]
    /\ UNCHANGED <<cfg, rx_len, tx_open, emitted, emit_pc, deadline_passed,
                   is_end, s_closed, cancel_token, main_pc, join_i, worker,
                   nrep, cancel_seen>>
    /\ UNCHANGED notSched

\* setup_http2 / setup_http3 fails with err: break when the semaphore is
\* closed, else wait for a token to consume.
CwDialFail(i, err) ==
    /\ cw[i].pc = "dial"
    /\ cw' = [cw EXCEPT ![i].pc = IF s_closed THEN "done" ELSE "dial_err",
                        ![i].err = IF s_closed THEN "none" ELSE err]
    /\ UNCHANGED <<cfg, rx_len, tx_open, emitted, emit_pc, deadline_passed,
                   is_end, s_closed, cancel_token, main_pc, join_i, worker,
                   streams, nrep, cancel_seen>>
    /\ UNCHANGED notSched

\* The dial error consumes a token without a record being sent.
CwErrRecvUnreported(i) ==
    /\ cw[i].pc = "dial_err"
    /\ rx_len > 0
    /\ rx_len' = rx_len - 1
    /\ cw' = [cw EXCEPT ![i].pc = "dial", ![i].err = "none"]
    /\ UNCHANGED <<cfg, tx_open, emitted, emit_pc, deadline_passed, is_end,
                   s_closed, cancel_token, main_pc, join_i, worker, streams,
                   nrep, cancel_seen>>
    /\ UNCHANGED notSched

\* ... rx.recv() yields a token: report the dial error and dial again.
CwErrRecv(i) ==
    /\ cw[i].pc = "dial_err"
    /\ rx_len > 0
    /\ rx_len' = rx_len - 1
    /\ nrep' = nrep + 1
    /\ cw' = [cw EXCEPT ![i].pc = "dial", ![i].err = "none"]
    /\ UNCHANGED <<cfg, tx_open, emitted, emit_pc, deadline_passed, is_end,
                   s_closed, cancel_token, main_pc, join_i, worker, streams,
                   cancel_seen>>
    /\ UNCHANGED notSched

\* ... rx.recv() fails: return.
CwErrClosed(i) ==
    /\ cw[i].pc = "dial_err"
    /\ rx_len = 0
    /\ ~tx_open
    /\ cw' = [cw EXCEPT ![i].pc = "done", ![i].err = "none"]
    /\ UNCHANGED <<cfg, rx_len, tx_open, emitted, emit_pc, deadline_passed,
                   is_end, s_closed, cancel_token, main_pc, join_i, worker,
                   streams, nrep, cancel_seen>>
    /\ UNCHANGED notSched

\* A stream task ends with `ret`: its JoinHandle holds the value until the
\* connection-worker reads it; a task whose handle was dropped is gone.
StreamEnds(s, ret) ==
    IF s.det THEN streams \ {s}
    ELSE (streams \ {s}) \cup {[s EXCEPT !.pc = ret]}

\* Stream task: rx.recv() yields a token, work_http2_once / work_http3_once starts.
StRecv(s) ==
    /\ s.pc = "recv"
    /\ rx_len > 0
    /\ rx_len' = rx_len - 1
    /\ streams' = (streams \ {s}) \cup {[s EXCEPT !.pc = "req"]}
    /\ UNCHANGED <<cfg, tx_open, emitted, emit_pc, deadline_passed, is_end,
                   s_closed, cancel_token, main_pc, join_i, worker, cw, nrep,
                   cancel_seen>>
    /\ UNCHANGED notSched

\* Stream task: rx.recv() fails, the task returns true.
StRecvClosed(s) ==
    /\ s.pc = "recv"
    /\ rx_len = 0
    /\ ~tx_open
    /\ streams' = StreamEnds(s, "true")
    /\ UNCHANGED <<cfg, rx_len, tx_open, emitted, emit_pc, deadline_passed,
                   is_end, s_closed, cancel_token, main_pc, join_i, worker, cw,
                   nrep, cancel_seen>>
    /\ UNCHANGED notSched

\* Stream task: the request returns res; it is reported, then the task loops
\* or returns is_cancel.
StComplete(s, res) ==
    /\ s.pc = "req"
    /\ nrep' = nrep + 1
    /\ cancel_seen' = (cancel_seen \/ is_cancel_error(res))
    /\ LET is_cancel == is_cancel_error(res) \/ s_closed
           is_reconnect == is_reconnect_error(cfg.work_type, res)
       IN  streams' =
             IF is_cancel \/ is_reconnect
               THEN StreamEnds(s, IF is_cancel THEN "true" ELSE "false")
               ELSE (streams \ {s}) \cup {[s EXCEPT !.pc = "recv"]}
    /\ UNCHANGED <<cfg, rx_len, tx_open, emitted, emit_pc, deadline_passed,
                   is_end, s_closed, cancel_token, main_pc, join_i, worker, cw>>
    /\ UNCHANGED notSched

\* The stream task whose JoinHandle connection-worker i is selecting on.
Awaited(i) ==
    { s \in streams : s.c = i /\ ~s.old /\ s.k = cw[i].j /\ ~s.det }

\* After one iteration of `for f in futures` that left connection_gone = gone:
\* the next future, or the decision after the last one.
CwAfterSelect(i, gone) ==
    IF cw[i].j < cfg.n_http2_parallel
      THEN [cw EXCEPT ![i].j = @ + 1, ![i].gone = gone]
      ELSE [cw EXCEPT ![i].gone = gone,
                      ![i].pc = IF gone THEN "done" ELSE "dial"]

\* A decision that looks at the stream task joined last only.
last_returned(gone, r) == r = "true"

\* connection_gone after a stream task that returned r was joined: Ok(true)
\* sets it, Ok(false) leaves it as it is.
connection_gone_after(gone, r) == gone \/ r = "true"

\* A join that does not wait for the stream task to finish.
CwJoinUnfinished(i) ==
    /\ cw[i].pc = "join"
    /\ \E s \in Awaited(i) :
         /\ streams' = IF s.pc \in {"true", "false"}
                         THEN streams \ {s}
                         ELSE (streams \ {s}) \cup {[s EXCEPT !.det = TRUE]}
         /\ cw' = CwAfterSelect(i, connection_gone_after(cw[i].gone, s.pc))
    /\ UNCHANGED <<cfg, rx_len, tx_open, emitted, emit_pc, deadline_passed,
                   is_end, s_closed, cancel_token, main_pc, join_i, worker,
                   nrep, cancel_seen>>
    /\ UNCHANGED notSched

\* select!: the branch r = f. Ok(true) sets connection_gone.
CwJoin(i) ==
    /\ cw[i].pc = "join"
    /\ \E s \in Awaited(i) :
         /\ s.pc \in {"true", "false"}
         /\ streams' = streams \ {s}
         /\ cw' = CwAfterSelect(i, connection_gone_after(cw[i].gone, s.pc))
    /\ UNCHANGED <<cfg, rx_len, tx_open, emitted, emit_pc, deadline_passed,
                   is_end, s_closed, cancel_token, main_pc, join_i, worker,
                   nrep, cancel_seen>>
    /\ UNCHANGED notSched

\* An s.acquire() branch that leaves connection_gone as it is.
CwJoinDeadlineGoesOn(i) ==
    /\ cw[i].pc = "join"
    /\ s_closed
    /\ \E s \in Awaited(i) :
         /\ streams' = IF s.pc \in {"true", "false"}
                         THEN streams \ {s}
                         ELSE (streams \ {s}) \cup {[s EXCEPT !.det = TRUE]}
         /\ cw' = [CwAfterSelect(i, cw[i].gone) EXCEPT ![i].deadlines = @ + 1]
    /\ nrep' = nrep + 1
    /\ UNCHANGED <<cfg, rx_len, tx_open, emitted, emit_pc, deadline_passed,
                   is_end, s_closed, cancel_token, main_pc, join_i, worker,
                   cancel_seen>>
    /\ UNCHANGED notSched

\* select!: the branch s.acquire(), ready once the semaphore is closed. It
\* reports Deadline and drops f: the stream task is detached, not aborted.
CwJoinDeadline(i) ==
    /\ cw[i].pc = "join"
    /\ s_closed
    /\ \E s \in Awaited(i) :
         /\ streams' = IF s.pc \in {"true", "false"}
                         THEN streams \ {s}
                         ELSE (streams \ {s}) \cup {[s EXCEPT !.det = TRUE]}
         /\ cw' = [CwAfterSelect(i, TRUE) EXCEPT ![i].deadlines = @ + 1]
    /\ nrep' = nrep + 1
    /\ UNCHANGED <<cfg, rx_len, tx_open, emitted, emit_pc, deadline_passed,
                   is_end, s_closed, cancel_token, main_pc, join_i, worker,
                   cancel_seen>>
    /\ UNCHANGED notSched

\* ----------------------------------------------------------- request engine

\* ConnectionTime with its two instants exchanged.
ConnectionTimeSwapped(dns_lookup, dialup) ==
    [dns_lookup |-> dialup, dialup |-> dns_lookup]

\* ConnectionTime { dns_lookup, dialup }.
ConnectionTime(dns_lookup, dialup) ==
    [dns_lookup |-> dns_lookup, dialup |-> dialup]

\* The value of an Option that is Some.
Unwrap(opt) == CHOOSE x \in opt : TRUE

\* The status of a response: a redirect with a Location header, or 200.
StatusOf(loc) == IF loc THEN 302 ELSE 200

\* A frame that keeps the status and len_bytes of its own response.
OwnResponse(resp, k) == resp[k]

\* status and len_bytes of frame k when it returns Ok: those the redirect()
\* call it made has returned, if it made one, else those of its response.
RECURSIVE Unwound(_, _)
Unwound(resp, k) == IF k < Len(resp) THEN Unwound(resp, k + 1) ELSE resp[k]

\* Err(kind) of the request in progress.
ErrResult(kind) ==
    [NoResult EXCEPT !.kind = kind, !.hops = rq.hops, !.loc = rq.loc,
                     !.opened = rq.opened, !.cached = rq.cached,
                     !.host = rq.host, !.ready_failed = rq.ready_failed]

\* Ok(RequestResult { start, first_byte, end, connection_time, .. }) of the
\* request in progress, end = Instant::now().
OkResult ==
    [ kind |-> "Ok", start |-> rq.start, first_byte |-> rq.first_byte,
      end |-> now, connection_time |-> rq.connection_time, hops |-> rq.hops,
      loc |-> rq.loc, opened |-> rq.opened, cached |-> rq.cached,
      host |-> rq.host, ready_failed |-> rq.ready_failed,
      status |-> Unwound(rq.resp, 1).status,
      len_bytes |-> Unwound(rq.resp, 1).len_bytes ]

\* The errors send_request(..).await and stream.frame().await can return.
TransportErrors(wt) ==
    RequestOutcomes(wt) \ {"Ok", "Timeout", "TooManyRedirect", "UrlParse"}

\* A record that is returned as it is.
keep_connection_time(r, connection_time) == r

set_connection_time(r, connection_time) ==
    IF r.kind = "Ok" THEN [r EXCEPT !.connection_time = {connection_time}]
    ELSE r

\* A dial that always restarts the latency measurement.
RedialStartAlways(r, t) == t

\* `start` after a failed readiness test: work_http1 takes it anew before it
\* dials again, redirect() leaves it alone.
RedialStart(r, t) == IF r.hops = 0 THEN t ELSE r.start

\* A nested call that passes its own limit on.
SameLimit(limit) == limit

\* The limit a redirect() frame passes to the redirect() call it makes.
NextLimit(limit) == limit - 1

\* A redirect() that returns the handle its last request was sent on.
ReturnedLast(r) == r.send_request

\* The handle redirect() returns to work_http1: send_request_base of the
\* outermost frame that dialed, else the handle the last response came on.
Returned(r) == IF r.base # "none" THEN r.base ELSE r.send_request

\* A worker that keeps the handle whatever the keep-alive flag says.
KeptAlways(r) == Returned(r)

\* client_state.send_request when work_http1 returns Ok: the handle of the
\* request, or the one redirect() returned, unless keep-alive is disabled.
Kept(r) == IF client.disable_keepalive THEN "none" ELSE Returned(r)

\* work_http1 / redirect() follow the Location header of the response in hand.
FollowsLocation ==
    /\ IsH1
    /\ rq.pc = "body"
    /\ rq.loc
    /\ rq.hops > 0 \/ client.redirect_limit # 0

\* The record r is sent on the report channel and the request is over.
Report(r) ==
    /\ result' = r
    /\ nreq' = nreq + 1
    /\ rq' = IdleRq

\* Time passes.
Tick ==
    /\ now < MaxClock
    /\ now' = now + 1
    /\ UNCHANGED <<notReq, client, client_state, connection, rq,
                   result, nreq>>

\* A take() that hands out a copy and leaves the handle where it was.
take_copies(send_request) == send_request

\* client_state.send_request after client_state.send_request.take(): None.
take_leaves(send_request) == "none"

\* work_http1 up to its first await: start is taken, the cached handle is
\* taken out of client_state if there is one, else client_http1 is called.
H1Start ==
    /\ IsH1
    /\ rq.pc = "idle"
    /\ nreq < cfg.n_tasks
    /\ rq' = [IdleRq EXCEPT !.start = now, !.url = "A",
                            !.limit = client.redirect_limit,
                            !.send_request = client_state,
                            !.cached = (client_state # "none"),
                            !.host = "static",
                            !.pc = IF client_state # "none" THEN "ready"
                                   ELSE "dns"]
    /\ client_state' = take_leaves(client_state)
    /\ result' = NoResult
    /\ UNCHANGED <<notReq, now, client, connection, nreq>>

\* Client::client: the DNS lookup returns, dns_lookup = Instant::now().
DnsOk ==
    /\ rq.pc = "dns"
    /\ rq' = [rq EXCEPT !.pc = "handshake", !.dns_lookup = {now}]
    /\ UNCHANGED <<notReq, now, client, client_state, connection,
                   result, nreq>>

\* A work_http1 that keeps the ConnectionTime of its first dial.
FirstDialed(r, ct) == IF r.connection_time # {} THEN r.connection_time ELSE {ct}

\* connection_time after a dial of work_http1 that took ct: Some(ct), whether
\* it is the first dial or one made after a failed readiness test.
Dialed(r, ct) == {ct}

\* work_http1: client_http1 returns, dialup = Instant::now(), connection_time
\* is set.
H1DialOk ==
    /\ IsH1
    /\ rq.pc = "handshake"
    /\ rq.hops = 0
    /\ rq' = [rq EXCEPT !.pc = "ready",
                        !.send_request = rq.url,
                        !.connection_time =
                            Dialed(rq, ConnectionTime(Unwrap(rq.dns_lookup), now)),
                        !.dns_lookup = {},
                        !.opened = @ \cup {"work_http1"}]
    /\ UNCHANGED <<notReq, now, client, client_state, connection,
                   result, nreq>>

\* redirect(): client_http1 returns, _dns_lookup is discarded.
RedirectDialOk ==
    /\ IsH1
    /\ rq.pc = "handshake"
    /\ rq.hops > 0
    /\ rq' = [rq EXCEPT !.pc = "ready",
                        !.send_request = rq.url,
                        !.dns_lookup = {},
                        !.opened = @ \cup {"redirect"}]
    /\ UNCHANGED <<notReq, now, client, client_state, connection,
                   result, nreq>>

\* A dial fails, in the lookup or in the handshake: `?` ends the request
\* (H1), the connection-worker reports the error (H2/H3).
DialFail(err) ==
    /\ rq.pc \in {"dns", "handshake"}
    /\ Report(ErrResult(err))
    /\ UNCHANGED <<notReq, now, client, client_state, connection>>

\* send_request.ready() succeeds: the request is built and sent.
ReadyOk ==
    /\ IsH1
    /\ rq.pc = "ready"
    /\ rq' = [rq EXCEPT !.pc = "sent"]
    /\ UNCHANGED <<notReq, now, client, client_state, connection,
                   result, nreq>>

\* send_request.ready() fails: dial again.
ReadyErr ==
    /\ IsH1
    /\ rq.pc = "ready"
    /\ rq' = [rq EXCEPT !.pc = "dns", !.send_request = "none",
                        !.start = RedialStart(rq, now),
                        !.ready_failed = IF rq.hops = 0 THEN {now} ELSE @]
    /\ UNCHANGED <<notReq, now, client, client_state, connection,
                   result, nreq>>

\* The response head arrives, with or without a Location header.
SendOk(loc) ==
    /\ rq.pc = "sent"
    /\ rq' = [rq EXCEPT !.pc = "body", !.loc = loc,
                        !.resp = Append(@, [status |-> StatusOf(loc),
                                            len_bytes |-> 0])]
    /\ UNCHANGED <<notReq, now, client, client_state, connection,
                   result, nreq>>

\* A redirect() that puts its handle back as work_http1 does.
PutBackAlways(r) == IF IsH1 THEN r.send_request ELSE client_state

\* client_state.send_request after send_request(..).await failed: work_http1
\* puts the handle back, redirect() drops it with `?`.
PutBack(r) == IF IsH1 /\ r.hops = 0 THEN r.send_request ELSE client_state

\* send_request(..).await fails. work_http1 puts the handle back into
\* client_state, redirect() drops it; an H2/H3 stream task that sees a
\* reconnect-class error gives its connection up.
SendErr(err) ==
    /\ rq.pc = "sent"
    /\ client_state' = PutBack(rq)
    /\ connection' = IF is_reconnect_error(cfg.work_type, err) THEN {}
                     ELSE connection
    /\ Report(ErrResult(err))
    /\ UNCHANGED <<notReq, now, client>>

\* stream.frame() yields a chunk with n bytes of data (none for a frame that
\* is not a data frame); work_http1/2/3 note the first one.
Frame(n) ==
    /\ rq.pc = "body"
    /\ rq.resp[Len(rq.resp)].len_bytes + n <= MaxBody
    /\ rq' = [rq EXCEPT !.first_byte =
                 IF rq.hops = 0 /\ @ = {} THEN {now} ELSE @,
                        !.resp[Len(rq.resp)].len_bytes = @ + n]
    /\ UNCHANGED <<notReq, now, client, client_state, connection,
                   result, nreq>>

\* stream.frame() yields an error: `chunk?` ends the request.
FrameErr(err) ==
    /\ rq.pc = "body"
    /\ connection' = IF is_reconnect_error(cfg.work_type, err) THEN {}
                     ELSE connection
    /\ Report(ErrResult(err))
    /\ UNCHANGED <<notReq, now, client, client_state>>

\* The body has ended and no redirect is to be followed: work_http1 takes
\* end, keeps the handle unless keep-alive is disabled, and returns Ok.
H1Finish ==
    /\ IsH1
    /\ rq.pc = "body"
    /\ ~FollowsLocation
    /\ client_state' = Kept(rq)
    /\ Report(OkResult)
    /\ UNCHANGED <<notReq, now, client, connection>>

\* redirect() with limit = 0.
RedirectTooMany ==
    /\ FollowsLocation
    /\ rq.limit = 0
    /\ Report(ErrResult("TooManyRedirect"))
    /\ UNCHANGED <<notReq, now, client, client_state, connection>>

\* redirect() with limit > 0 and a Location that does not parse.
RedirectBadLocation ==
    /\ FollowsLocation
    /\ rq.limit # 0
    /\ Report(ErrResult("UrlParse"))
    /\ UNCHANGED <<notReq, now, client, client_state, connection>>

\* The Host header of redirect()'s request for url: self.request(&url) takes
\* it from the client's header map, and it is replaced by url's authority
\* when that differs from base_url's.
HostHeader(url, base_url) == IF url # base_url THEN url ELSE "static"

\* redirect() with limit > 0 and a Location of authority auth: the handle in
\* hand is reused when the authority is the same and keep-alive is on, else
\* it becomes send_request_base and client_http1 is called.
RedirectFollow(auth) ==
    /\ FollowsLocation
    /\ rq.limit # 0
    /\ LET reuse == auth = rq.url /\ ~client.disable_keepalive
       IN rq' = [rq EXCEPT !.hops = @ + 1,
                           !.limit = NextLimit(@),
                           !.url = auth,
                           !.host = HostHeader(auth, rq.url),
                           !.loc = FALSE,
                           !.pc = IF reuse THEN "ready" ELSE "dns",
                           !.send_request = IF reuse THEN @ ELSE "none",
                           !.base = IF reuse \/ @ # "none" THEN @
                                    ELSE rq.send_request]
    /\ UNCHANGED <<notReq, now, client, client_state, connection,
                   result, nreq>>

\* select!: sleep(timeout) wins at an await of do_req. The future is dropped
\* with the handle it holds.
RequestTimeout ==
    /\ client.timeout
    /\ IF IsH1 THEN rq.pc # "idle" ELSE rq.pc \in {"sent", "body"}
    /\ Report(ErrResult("Timeout"))
    /\ UNCHANGED <<notReq, now, client, client_state, connection>>

\* H2/H3 connection-worker: setup_http2 / setup_http3 is called.
ConnectStart ==
    /\ ~IsH1
    /\ rq.pc = "idle"
    /\ connection = {}
    /\ nreq < cfg.n_tasks
    /\ rq' = [IdleRq EXCEPT !.pc = "dns", !.url = "A"]
    /\ result' = NoResult
    /\ UNCHANGED <<notReq, now, client, client_state, connection,
                   nreq>>

\* connect_http2 / connect_http3 returns its ConnectionTime, dialup =
\* Instant::now(). No request was made on the connection yet.
ConnectOk ==
    /\ ~IsH1
    /\ rq.pc = "handshake"
    /\ connection' = {[time |-> ConnectionTime(Unwrap(rq.dns_lookup), now),
                       used |-> FALSE, seen |-> {}]}
    /\ rq' = IdleRq
    /\ UNCHANGED <<notReq, now, client, client_state, result, nreq>>

\* work_http2 / work_http3 up to its first await: start is taken and the
\* request is sent on the connection.
H2Start ==
    /\ ~IsH1
    /\ rq.pc = "idle"
    /\ connection # {}
    /\ nreq < cfg.n_tasks
    /\ rq' = [IdleRq EXCEPT !.start = now, !.url = "A", !.pc = "sent",
                            !.opened = IF Unwrap(connection).used THEN {}
                                       ELSE {"connect"}]
    /\ connection' = {[Unwrap(connection) EXCEPT !.used = TRUE]}
    /\ result' = NoResult
    /\ UNCHANGED <<notReq, now, client, client_state, nreq>>

\* A stream task that measures a connection time for each request.
request_connection_time(conn, r) == ConnectionTime(r.start, now)

\* The connection_time a stream task passes to work_http2_once /
\* work_http3_once: the value setup_http2 / setup_http3 returned for the
\* task's connection, copied into the task when it was spawned.
task_connection_time(conn, r) == conn.time

\* The body has ended: work_http2 / work_http3 returns Ok with
\* connection_time None, work_http2_once / work_http3_once sets it. The
\* connection's `seen` collects the connection_time of the Ok records made
\* on it.
H2Finish ==
    /\ ~IsH1
    /\ rq.pc = "body"
    /\ LET conn == Unwrap(connection)
           r == set_connection_time(OkResult, task_connection_time(conn, rq))
       IN /\ Report(r)
          /\ connection' = {[conn EXCEPT !.seen = @ \cup r.connection_time]}
    /\ UNCHANGED <<notReq, now, client, client_state>>

\* ------------------------------------------------------------ paced emitters

FixedVariants == {"work_with_qps", "work_with_qps_latency_correction"}

UntilVariants ==
    {"work_until_with_qps", "work_until_with_qps_latency_correction"}

CorrectedVariants ==
    {"work_with_qps_latency_correction",
     "work_until_with_qps_latency_correction"}

\* The arguments of a work*_with_qps* entry function: QueryLimit::Qps with
\* 1/qps = period ticks, or QueryLimit::Burst(period, rate).
PaceConfigs ==
    { c \in [ variant : FixedVariants \cup UntilVariants,
              kind : {"Qps", "Burst"},
              period : 1 .. MaxPeriod,
              rate : 0 .. MaxTasks,
              n_tasks : 0 .. MaxTasks,
              dead_line : 1 .. MaxClock - 1 ] :
        /\ c.kind = "Qps" => c.rate = 1
        /\ c.variant \in FixedVariants => c.dead_line = 1
        /\ c.variant \in UntilVariants => c.n_tasks = 0 }

IsFixed == emitter.conf.variant \in FixedVariants

IsCorrected == emitter.conf.variant \in CorrectedVariants

IsQps == emitter.conf.kind = "Qps"

\* A schedule that is one period early.
ScheduledInstantEarly(start, i, period) == start + i * period - period

\* start + i / qps, the instant sleep_until waits for before the i-th token.
ScheduledInstant(start, i, period) == start + i * period

\* The payload of a token sent at instant t: Some(Instant::now()) with
\* latency correction, None without.
Payload(corrected, t) == IF corrected THEN {t} ELSE {}

\* The emitter e suspends in sleep_until / sleep. `due` is the instant the
\* sleep is set to end at.
Sleeping(e, pc) ==
    [e EXCEPT !.pc = pc, !.slept = 0,
              !.due = IF e.conf.kind = "Qps"
                        THEN ScheduledInstant(e.start, e.n, e.conf.period)
                        ELSE now + e.conf.period]

\* The emitter's future ends: tx is dropped.
Ended(e) == [e EXCEPT !.pc = "done", !.open = FALSE]

\* Fixed-N variants: the loop test after n tokens. Qps: for i in 0..n_tasks.
\* Burst: while n + rate < n_tasks, then the remainder if n_tasks > n.
FixedNext(e) ==
    IF e.conf.kind = "Qps"
      THEN IF e.n < e.conf.n_tasks THEN Sleeping(e, "sleep") ELSE Ended(e)
      ELSE IF e.n + e.conf.rate < e.conf.n_tasks THEN Sleeping(e, "sleep")
           ELSE IF e.conf.n_tasks > e.n THEN Sleeping(e, "sleep_rest")
           ELSE Ended(e)

\* A sleep that is over as soon as it is begun.
DueAtOnce == TRUE

\* The sleep of the emitter is over: the instant of sleep_until has come, or
\* sleep(duration) has lasted for duration.
Due ==
    IF IsQps THEN now >= emitter.due ELSE emitter.slept = emitter.conf.period

\* Tokens sent at one wake-up.
GroupSize ==
    IF IsQps THEN 1
    ELSE IF emitter.pc = "sleep_rest" THEN emitter.conf.n_tasks - emitter.n
    ELSE emitter.conf.rate

\* k tokens sent now; `sched` records the instant the sleep was set to end at.
Sent(k) ==
    tokens \o [j \in 1 .. k |->
                  [payload |-> Payload(IsCorrected, now), sched |-> emitter.due]]

\* The emitter after it sent k tokens now.
Emitted(e, k) ==
    [e EXCEPT !.n = @ + k, !.last_emit = {now}, !.gap = 0]

EmitterInit(c) ==
    LET e == [ conf |-> c, pc |-> "start", start |-> 0, n |-> 0, slept |-> 0,
               due |-> 0, last_emit |-> {}, gap |-> 0,
               open |-> TRUE ]
    IN IF c.variant \in FixedVariants THEN e
       ELSE IF c.variant \in CorrectedVariants
              THEN [e EXCEPT !.pc = "sleep",
                             !.due = IF c.kind = "Qps" THEN 0 ELSE c.period]
              ELSE [e EXCEPT !.pc = "check"]

\* The worker between two tokens.
IdleConsumer ==
    [ pc |-> "recv", rx_value |-> {}, sched |-> 0, start |-> 0,
      result |-> [kind |-> "none", start |-> 0, end |-> 0,
                  start_latency_correction |-> {}, rx_value |-> {},
                  sched |-> 0] ]

InitPace ==
    /\ cfg \in {c \in RequestConfigs : c.work_type = "H1"}
    /\ client = DefaultClient
    /\ SchedInit
    /\ ReqInit
    /\ emitter \in {EmitterInit(c) : c \in PaceConfigs}
    /\ tokens = <<>>
    /\ consumer = IdleConsumer
    /\ px = "none"
    /\ fast = "none"
    /\ h3 = "none"

\* A record that keeps start_latency_correction as it is.
keep_start_latency_correction(r, slc) == r

set_start_latency_correction(r, slc) ==
    IF r.kind = "Ok" THEN [r EXCEPT !.start_latency_correction = {slc}]
    ELSE r

\* Time passes: the clock advances up to MaxClock (a later instant reads as
\* MaxClock), a running sleep(duration) gets one tick older.
PaceTick ==
    /\ \/ now < MaxClock
       \/ emitter.pc # "done" /\ ~IsQps /\ emitter.slept < emitter.conf.period
    /\ now' = IF now < MaxClock THEN now + 1 ELSE now
    /\ emitter' = [emitter EXCEPT
                      !.slept = IF @ < emitter.conf.period THEN @ + 1 ELSE @,
                      !.gap = IF @ < MaxPeriod THEN @ + 1 ELSE @]
    /\ UNCHANGED <<tokens, consumer, notPace>>

\* Fixed-N variants: work_queue is polled for the first time, after
\* parallel_work_* has returned. Qps takes start here.
PaceBegin ==
    /\ emitter.pc = "start"
    /\ emitter' = FixedNext([emitter EXCEPT !.start = now])
    /\ UNCHANGED <<now, tokens, consumer, notPace>>

\* Fixed-N variants: the sleep is over, the tokens of this wake-up are sent
\* and the loop goes on to its next sleep or ends.
FixedEmit ==
    /\ IsFixed
    /\ emitter.pc \in {"sleep", "sleep_rest"}
    /\ Due
    /\ tokens' = Sent(GroupSize)
    /\ emitter' = FixedNext(Emitted(emitter, GroupSize))
    /\ UNCHANGED <<now, consumer, notPace>>

\* A deadline that is never found to have passed.
never_past(t, dead_line) == FALSE

\* std::time::Instant::now() > dead_line, for the instant t read.
past_dead_line(t, dead_line) == t > dead_line

\* work_until_with_qps: the deadline test at the top of the loop.
UntilCheck ==
    /\ emitter.pc = "check"
    /\ emitter' = IF past_dead_line(now, emitter.conf.dead_line)
                    THEN Ended(emitter)
                  ELSE Sleeping(emitter, "sleep")
    /\ UNCHANGED <<now, tokens, consumer, notPace>>

\* work_until_with_qps: the sleep is over, the tokens are sent.
UntilEmit ==
    /\ ~IsFixed
    /\ ~IsCorrected
    /\ emitter.pc = "sleep"
    /\ Due
    /\ tokens' = Sent(GroupSize)
    /\ emitter' = [Emitted(emitter, GroupSize) EXCEPT !.pc = "check"]
    /\ UNCHANGED <<now, consumer, notPace>>

\* work_until_with_qps_latency_correction: the sleep is over; now is read,
\* the loop ends past the deadline, else the tokens are sent with Some(now).
UntilEmitCorrected ==
    /\ ~IsFixed
    /\ IsCorrected
    /\ emitter.pc = "sleep"
    /\ Due
    /\ IF past_dead_line(now, emitter.conf.dead_line)
         THEN /\ emitter' = Ended(emitter)
              /\ tokens' = tokens
         ELSE /\ tokens' = Sent(GroupSize)
              /\ emitter' = Sleeping(Emitted(emitter, GroupSize), "sleep")
    /\ UNCHANGED <<now, consumer, notPace>>

\* The worker: rx.recv() yields a token and work_http1 takes start.
ConsumerRecv ==
    /\ consumer.pc = "recv"
    /\ tokens # <<>>
    /\ consumer' = [consumer EXCEPT !.pc = "req",
                                    !.rx_value = Head(tokens).payload,
                                    !.sched = Head(tokens).sched,
                                    !.start = now]
    /\ tokens' = Tail(tokens)
    /\ UNCHANGED <<now, emitter, notPace>>

\* work_http1: the readiness test fails, start is taken anew.
ConsumerRedial ==
    /\ consumer.pc = "req"
    /\ consumer.start < now
    /\ consumer' = [consumer EXCEPT !.start = now]
    /\ UNCHANGED <<now, emitter, tokens, notPace>>

\* The request ends with kind: the worker applies the token's payload to the
\* record, sends it, and goes on or breaks.
ConsumerComplete(kind) ==
    /\ consumer.pc = "req"
    /\ LET r == [ kind |-> kind,
                  start |-> IF kind = "Ok" THEN consumer.start ELSE 0,
                  end |-> IF kind = "Ok" THEN now ELSE 0,
                  start_latency_correction |-> {},
                  rx_value |-> consumer.rx_value,
                  sched |-> consumer.sched ]
       IN consumer' =
            [IdleConsumer EXCEPT
               !.result = IF consumer.rx_value # {}
                            THEN set_start_latency_correction(
                                     r, Unwrap(consumer.rx_value))
                            ELSE r,
               !.pc = IF is_cancel_error(kind) \/ ~IsFixed THEN "done"
                      ELSE "recv"]
    /\ UNCHANGED <<now, emitter, tokens, notPace>>

\* rx.recv() fails: the channel is closed and empty.
ConsumerClosed ==
    /\ consumer.pc = "recv"
    /\ tokens = <<>>
    /\ ~emitter.open
    /\ consumer' = [consumer EXCEPT !.pc = "done"]
    /\ UNCHANGED <<now, emitter, tokens, notPace>>

EmitterStep ==
    \/ PaceBegin
    \/ FixedEmit
    \/ UntilCheck
    \/ UntilEmit
    \/ UntilEmitCorrected

\* --------------------------------------------------------------------- spec

Next ==
    \/ DeadlinePasses
    \/ ParallelWorkReturns
    \/ EmitCount
    \/ EmitCountFail
    \/ EmitCountDone
    \/ EndlessEmit
    \/ EndlessExit
    \/ QpsCheck
    \/ QpsEmit
    \/ MainJoin
    \/ MainAbort
    \/ MainJoined
    \/ MainEmitterJoined
    \/ \E i \in Conns : H1Recv(i)
    \/ \E i \in Conns : H1RecvClosed(i)
    \/ \E i \in Conns : \E res \in RequestOutcomes("H1") : H1Complete(i, res)
    \/ \E i \in Conns : CwDialOk(i)
    \/ \E i \in Conns : \E err \in DialErrors : CwDialFail(i, err)
    \/ \E i \in Conns : CwErrRecv(i)
    \/ \E i \in Conns : CwErrClosed(i)
    \/ \E s \in streams : StRecv(s)
    \/ \E s \in streams : StRecvClosed(s)
    \/ \E s \in streams : \E res \in RequestOutcomes(cfg.work_type) : StComplete(s, res)
    \/ \E i \in Conns : CwJoin(i)
    \/ \E i \in Conns : CwJoinDeadline(i)

Spec == Init /\ [][Next]_vars

\* The steps of one stream task: stream k of connection-worker c.
StreamStep(c, k) ==
    \E s \in streams :
       /\ s.c = c
       /\ s.k = k
       /\ \/ StRecv(s)
          \/ StRecvClosed(s)
          \/ \E res \in RequestOutcomes(cfg.work_type) : StComplete(s, res)

\* The steps of connection-worker i.
CwStep(i) ==
    /\ i \in Conns
    /\ \/ CwDialOk(i)
       \/ \E err \in DialErrors : CwDialFail(i, err)
       \/ CwErrRecv(i)
       \/ CwErrClosed(i)
       \/ CwJoin(i)
       \/ CwJoinDeadline(i)

\* The emitter's steps.
EmitStep ==
    \/ EmitCount
    \/ EmitCountFail
    \/ EmitCountDone
    \/ EndlessEmit
    \/ EndlessExit
    \/ QpsCheck
    \/ QpsEmit

\* The steps of the entry function over H2/H3.
MainStep ==
    ParallelWorkReturns \/ MainJoin \/ MainJoined \/ MainEmitterJoined

\* The entry functions over H2 and H3 with one connection-worker.
StreamConfigs ==
    { c \in Configs : c.work_type # "H1" /\ c.n_connections = 1 }

InitStreams ==
    /\ cfg \in StreamConfigs
    /\ client = DefaultClient
    /\ SchedInit
    /\ ReqInit
    /\ Unused

NextStreams ==
    \/ DeadlinePasses
    \/ MainStep
    \/ EmitStep
    \/ \E i \in 1 .. MaxStreams : CwStep(i)
    \/ \E c \in 1 .. MaxStreams : \E k \in 1 .. MaxStreams : StreamStep(c, k)

\* The runtime polls every task that can make progress, requests and dials
\* come to an end, and the clock reaches the deadline.
SpecFair ==
    /\ InitStreams
    /\ [][NextStreams]_vars
    /\ WF_vars(DeadlinePasses)
    /\ WF_vars(MainStep)
    /\ WF_vars(EmitStep)
    /\ \A i \in 1 .. MaxStreams : WF_vars(CwStep(i))
    /\ \A c \in 1 .. MaxStreams : \A k \in 1 .. MaxStreams :
          WF_vars(StreamStep(c, k))

\* endless_emitter: the send branch of its select!, after the deadline. The
\* count of tokens stops at MaxTasks: between its MaxTasks-th token and the
\* end of parallel_work_*'s sleep the emitter is held back, after it the
\* tokens it sends are not counted.
EndlessRefill ==
    /\ emit_pc = "run"
    /\ rx_len < ChanCap
    /\ emitted = MaxTasks
    /\ is_end \/ s_closed
    /\ rx_len' = rx_len + 1
    /\ UNCHANGED <<cfg, tx_open, emitted, emit_pc, deadline_passed, is_end,
                   s_closed, cancel_token, main_pc, join_i, worker, cw,
                   streams, nrep, cancel_seen>>
    /\ UNCHANGED notSched

\* The steps of the endless emitter task.
EndlessStep == EndlessEmit \/ EndlessRefill \/ EndlessExit

\* The steps of work_until.
UntilStep ==
    ParallelWorkReturns \/ MainJoin \/ MainAbort \/ MainJoined
        \/ MainEmitterJoined

\* The steps of the worker tasks, connection-workers and stream tasks of
\* work_until.
UntilWorkStep ==
    \/ \E i \in Conns : H1Recv(i)
    \/ \E i \in Conns : \E res \in RequestOutcomes("H1") : H1Complete(i, res)
    \/ \E i \in Conns : CwDialOk(i)
    \/ \E i \in Conns : \E err \in DialErrors : CwDialFail(i, err)
    \/ \E i \in Conns : CwErrRecv(i)
    \/ \E s \in streams : StRecv(s)
    \/ \E s \in streams : StRecvClosed(s)
    \/ \E s \in streams :
          \E res \in RequestOutcomes(cfg.work_type) : StComplete(s, res)
    \/ \E i \in Conns : CwJoin(i)
    \/ \E i \in Conns : CwJoinDeadline(i)

\* work_until over H1 with any number of workers, over H2 and H3 with one
\* connection-worker and any number of stream tasks.
UntilConfigs ==
    { c \in Configs : /\ c.entry = "work_until"
                      /\ c.work_type # "H1" => c.n_connections = 1 }

InitUntil ==
    /\ cfg \in UntilConfigs
    /\ client = DefaultClient
    /\ SchedInit
    /\ ReqInit
    /\ Unused

NextUntil ==
    \/ DeadlinePasses
    \/ UntilStep
    \/ EndlessStep
    \/ UntilWorkStep

\* work_until (open-loop deadline mode). The clock reaches the deadline;
\* tokio polls every task that is ready, so work_until, the emitter task and
\* the worker side each take a step that stays possible; a request or dial
\* that was started completes.
SpecUntil ==
    /\ InitUntil
    /\ [][NextUntil]_vars
    /\ WF_vars(DeadlinePasses)
    /\ WF_vars(UntilStep)
    /\ WF_vars(EndlessStep)
    /\ WF_vars(UntilWorkStep)

\* The steps of work(): parallel_work_* returns the futures at once, the
\* emitter of the N tokens runs inside work() itself, then the futures are
\* joined.
CountStep ==
    \/ ParallelWorkReturns
    \/ EmitCount
    \/ EmitCountFail
    \/ EmitCountDone
    \/ MainJoin
    \/ MainJoined

\* The steps of the worker tasks, connection-workers and stream tasks of
\* work(): no semaphore is closed and no deadline passes.
CountWorkStep ==
    \/ \E i \in Conns : H1Recv(i)
    \/ \E i \in Conns : H1RecvClosed(i)
    \/ \E i \in Conns : \E res \in RequestOutcomes("H1") : H1Complete(i, res)
    \/ \E i \in Conns : CwDialOk(i)
    \/ \E i \in Conns : \E err \in DialErrors : CwDialFail(i, err)
    \/ \E i \in Conns : CwErrRecv(i)
    \/ \E i \in Conns : CwErrClosed(i)
    \/ \E s \in streams : StRecv(s)
    \/ \E s \in streams : StRecvClosed(s)
    \/ \E s \in streams :
          \E res \in RequestOutcomes(cfg.work_type) : StComplete(s, res)
    \/ \E i \in Conns : CwJoin(i)

\* work() over H1, H2 and H3 with every number of connections, stream tasks
\* and tokens.
CountConfigs == { c \in Configs : c.entry = "work" }

InitCount ==
    /\ cfg \in CountConfigs
    /\ client = DefaultClient
    /\ SchedInit
    /\ ReqInit
    /\ Unused

NextCount == CountStep \/ CountWorkStep

\* work() (closed-loop count mode): tokio polls every task that is ready, and
\* a request or dial that was started completes.
SpecCount ==
    /\ InitCount
    /\ [][NextCount]_vars
    /\ WF_vars(CountStep)
    /\ WF_vars(CountWorkStep)

NextReq ==
    \/ Tick
    \/ H1Start
    \/ DnsOk
    \/ H1DialOk
    \/ RedirectDialOk
    \/ \E err \in DialErrors : DialFail(err)
    \/ ReadyOk
    \/ ReadyErr
    \/ \E loc \in BOOLEAN : SendOk(loc)
    \/ \E err \in TransportErrors(cfg.work_type) : SendErr(err)
    \/ Frame(0)
    \/ \E err \in TransportErrors(cfg.work_type) : FrameErr(err)
    \/ H1Finish
    \/ RedirectTooMany
    \/ RedirectBadLocation
    \/ \E auth \in Authorities : RedirectFollow(auth)
    \/ RequestTimeout
    \/ ConnectStart
    \/ ConnectOk
    \/ H2Start
    \/ H2Finish

\* The timing of a request on all three protocols; its frames carry no data.
SpecReq == InitReq /\ [][NextReq]_vars

\* work_http1 and redirect() with bodies of up to MaxBody bytes.
ChainConfigs == { c \in RequestConfigs : c.work_type = "H1" }

InitChain ==
    /\ cfg \in ChainConfigs
    /\ client \in Clients
    /\ SchedInit
    /\ ReqInit
    /\ Unused

NextChain ==
    \/ H1Start
    \/ DnsOk
    \/ H1DialOk
    \/ RedirectDialOk
    \/ \E err \in DialErrors : DialFail(err)
    \/ ReadyOk
    \/ ReadyErr
    \/ \E loc \in BOOLEAN : SendOk(loc)
    \/ \E err \in TransportErrors("H1") : SendErr(err)
    \/ \E n \in 0 .. MaxBody : Frame(n)
    \/ \E err \in TransportErrors("H1") : FrameErr(err)
    \/ H1Finish
    \/ RedirectTooMany
    \/ RedirectBadLocation
    \/ \E auth \in Authorities : RedirectFollow(auth)
    \/ RequestTimeout

\* The handles and the responses of an H1 worker's requests, at one instant.
SpecChain == InitChain /\ [][NextChain]_vars

NextPace ==
    \/ PaceTick
    \/ PaceBegin
    \/ FixedEmit
    \/ UntilCheck
    \/ UntilEmit
    \/ UntilEmitCorrected
    \/ ConsumerRecv
    \/ ConsumerRedial
    \/ \E kind \in {"Ok", "Timeout", "IoEmfile"} : ConsumerComplete(kind)
    \/ ConsumerClosed

SpecPace == InitPace /\ [][NextPace]_vars

\* The runtime polls a task that can run, and time passes.
SpecPaceFair ==
    InitPace /\ [][NextPace]_vars /\ WF_vars(EmitterStep) /\ WF_vars(PaceTick)

\* ----------------------------------------------------- scheduler properties

\* Requests in flight on connection i: of its H1 worker, or of all the stream
\* tasks spawned by its H2/H3 connection-worker that still run.
Outstanding(i) ==
    IF IsH1 THEN worker[i].outstanding
    ELSE Cardinality({ s \in streams : s.c = i /\ s.pc = "req" })

C2_OneDeadlinePerAbortedWorker ==
    AbortMode =>
        \A i \in Conns :
            IF main_pc = "par" \/ (main_pc = "join" /\ i >= join_i)
              THEN worker[i].deadline = 0
              ELSE /\ worker[i].pc \in {"done", "cancelled"}
                   /\ worker[i].deadline = IF worker[i].pc = "cancelled" THEN 1 ELSE 0
                   /\ worker[i].outstanding = 0

C2_Witness ==
    /\ AbortMode
    /\ main_pc = "done"
    /\ \E i, j \in Conns :
         /\ worker[i].pc = "cancelled" /\ worker[i].deadline = 1
         /\ worker[j].pc = "done" /\ worker[j].deadline = 0

\* C3 as stated: when a deadline-bounded entry function returns (H1 in drain
\* mode, H2/H3 in either mode), no request is in flight and no stream task
\* is still running.
C3_DrainedOnReturn ==
    (has_deadline /\ main_pc = "done" /\ (IsH1 => cfg.wait_ongoing)) =>
        /\ \A i \in Conns : Outstanding(i) = 0
        /\ \A s \in streams : s.pc \notin {"recv", "req"}

\* C7: an H1 worker has at most one request in flight, and the stream tasks
\* of one H2/H3 connection-worker at most n_http2_parallel, in every state.
C7_OutstandingBounded ==
    \A i \in Conns :
        Outstanding(i) <= IF IsH1 THEN 1 ELSE cfg.n_http2_parallel

C7_Witness ==
    /\ ~IsH1
    /\ cfg.n_http2_parallel = MaxStreams
    /\ s_closed
    /\ \E i \in Conns : Outstanding(i) = MaxStreams /\ cw[i].pc = "done"

NonCancelErrors(wt) ==
    { r \in RequestOutcomes(wt) : r # "Ok" /\ ~is_cancel_error(r) }

\* C9 as stated: a request error that is not cancel-class ends only that
\* request. Before the deadline an H1 worker that reported one waits for the
\* next token; an H2/H3 stream task does too, or (reconnect-class) returns
\* "reconnect" to its connection-worker.
C9_NonCancelErrorKeepsWorker ==
    [][ /\ \A i \in Conns : \A r \in NonCancelErrors("H1") :
             (H1Complete(i, r) /\ ~is_end) => worker'[i].pc = "recv"
        /\ \A s \in streams : \A r \in NonCancelErrors(cfg.work_type) :
             (StComplete(s, r) /\ ~s_closed) =>
                 \E s2 \in streams' :
                     /\ s2.c = s.c /\ s2.k = s.k /\ s2.old = s.old
                     /\ s2.pc = IF is_reconnect_error(cfg.work_type, r)
                                  THEN "false" ELSE "recv"
      ]_vars

\* C10 as stated: a task that observed a cancel-class error performs no
\* further dial and no further request: an H1 worker and a stream task end,
\* a connection-worker whose dial failed with such an error does not dial
\* again.
C10_CancelStopsWorker ==
    [][ /\ \A i \in Conns : \A r \in RequestOutcomes("H1") :
             (H1Complete(i, r) /\ is_cancel_error(r)) => worker'[i].pc = "done"
        /\ \A s \in streams : \A r \in RequestOutcomes(cfg.work_type) :
             (StComplete(s, r) /\ is_cancel_error(r)) =>
                 ~ \E s2 \in streams' :
                     /\ s2.c = s.c /\ s2.k = s.k /\ s2.old = s.old
                     /\ s2.pc \in {"recv", "req"}
        /\ \A i \in Conns :
             (cw[i].pc = "dial_err" /\ is_cancel_error(cw[i].err)) =>
                 cw'[i].pc # "dial"
      ]_vars

\* ------------------------------------------------ request-engine properties

C5_DialBeforeStart ==
    result.kind = "Ok" =>
        \A c \in result.connection_time :
            c.dns_lookup <= c.dialup /\ c.dialup <= result.start

\* C5 amended: a record with connection_time has dns_lookup <= dialup; the
\* dial precedes the request for H2/H3 (dialup <= start) and lies within it
\* for H1 (start <= dns_lookup and dialup <= end).
C5_DialOrdered ==
    result.kind = "Ok" =>
        \A c \in result.connection_time :
            /\ c.dns_lookup <= c.dialup
            /\ IF IsH1
                 THEN result.start <= c.dns_lookup /\ c.dialup <= result.end
                 ELSE c.dialup <= result.start

C5_Witness ==
    /\ result.kind = "Ok"
    /\ IsH1
    /\ \E c \in result.connection_time :
         /\ result.start < c.dns_lookup
         /\ c.dns_lookup < c.dialup
         /\ c.dialup < result.end

\* C6: every Ok record has start <= end, and start <= first_byte <= end when
\* first_byte is present, also after a re-dial and after redirects.
C6_StartFirstByteEnd ==
    result.kind = "Ok" =>
        /\ result.start <= result.end
        /\ \A fb \in result.first_byte :
               result.start <= fb /\ fb <= result.end

C6_Witness ==
    /\ result.kind = "Ok"
    /\ result.hops > 0
    /\ "redirect" \in result.opened
    /\ \E fb \in result.first_byte : result.start < fb /\ fb < result.end

\* C8: an H1 request follows at most redirect_limit redirects; TooManyRedirect
\* is returned only for a Location on the response to the redirect_limit-th
\* followed redirect, and no Ok record ends on a response with Location
\* unless redirect_limit is 0, when nothing is followed and the first
\* response is reported.
C8_RedirectLimit ==
    /\ rq.hops <= client.redirect_limit
    /\ result.hops <= client.redirect_limit
    /\ result.kind = "TooManyRedirect" =>
           /\ client.redirect_limit >= 1
           /\ result.hops = client.redirect_limit
           /\ result.loc
    /\ (IsH1 /\ result.kind = "Ok" /\ result.loc) => client.redirect_limit = 0

C8_Witness ==
    /\ result.kind = "TooManyRedirect"
    /\ result.hops = MaxRedirectLimit
    /\ nreq = 1

\* --------------------------------------------------- slow path, second part

\* C11 as stated: every error returned by a request or by a dial is sent on
\* the report channel exactly once, also when the semaphore or the token
\* channel is already closed: a failed request is reported in the step that
\* ends it, a failed dial is reported in that step or held by its
\* connection-worker, and an error that is held is given up only by sending it.
C11_EveryErrorReported ==
    [][ /\ \A i \in Conns : \A r \in RequestOutcomes("H1") \ {"Ok"} :
             H1Complete(i, r) => nrep' = nrep + 1
        /\ \A s \in streams : \A r \in RequestOutcomes(cfg.work_type) \ {"Ok"} :
             StComplete(s, r) => nrep' = nrep + 1
        /\ \A i \in Conns : \A err \in DialErrors :
             CwDialFail(i, err) => (nrep' = nrep + 1 \/ cw'[i].err = err)
        /\ \A i \in Conns :
             (cw[i].err # "none" /\ cw'[i].err = "none") => nrep' = nrep + 1
      ]_vars

\* --------------------------------------------------------- pacing properties

\* C12: QPS pacing with 1/q = period ticks, in all four variants: the i-th
\* token is not sent before start + i * period, so at every instant the
\* tokens sent since start number at most (now - start) / period + 1.
C12_QpsSchedule ==
    IsQps =>
        /\ emitter.n <= (now - emitter.start) \div emitter.conf.period + 1
        /\ \A t \in emitter.last_emit :
               t >= emitter.start + (emitter.n - 1) * emitter.conf.period

C12_Witness ==
    /\ IsQps
    /\ emitter.conf.period = MaxPeriod
    /\ emitter.n = 2
    /\ emitter.last_emit = {emitter.start + MaxPeriod}
    /\ now = emitter.start + MaxPeriod

\* C13 as stated: QPS pacing: two consecutive tokens are sent at least one
\* period apart, also when the emitter ran late for the earlier one.
C13_QpsInterEmissionDelay ==
    [][ (IsQps /\ emitter'.n = emitter.n + 1) =>
            \A t \in emitter.last_emit : now - t >= emitter.conf.period
      ]_vars

\* C13, amended: QPS pacing: the delay between two consecutive tokens is at
\* least one period less the time by which the earlier token was sent after
\* its scheduled instant start + i * period; a token sent late is followed at
\* once by every token whose scheduled instant has passed.
C13_DelayAtLeastPeriodLessLateness ==
    [][ (IsQps /\ emitter'.n = emitter.n + 1) =>
            \A t \in emitter.last_emit :
                LET lateness ==
                        t - (emitter.start + (emitter.n - 1) * emitter.conf.period)
                IN now - t >= emitter.conf.period - lateness
      ]_vars

C13_Witness ==
    /\ IsQps
    /\ IsCorrected
    /\ now < MaxClock
    /\ Len(tokens) = 2
    /\ tokens[1].sched < tokens[2].sched
    /\ tokens[1].payload = tokens[2].payload

\* C14 as stated: Burst pacing in the fixed-N variants, for every n_tasks and
\* every rate: the emitter ends, having sent exactly n_tasks tokens, and
\* closes the channel.
C14_BurstEmitsAllAndCloses ==
    <>( (IsFixed /\ ~IsQps) =>
            /\ emitter.pc = "done"
            /\ emitter.n = emitter.conf.n_tasks
            /\ ~emitter.open )

\* C15: every Ok record of a latency-correction variant has
\* start_latency_correction set; it is the payload of the token that started
\* the request and is not later than start, so that the duration measured
\* from it is at least end - start. A record made from a token without
\* payload, and every Err, has none.
C15_StartLatencyCorrection ==
    LET r == consumer.result
    IN /\ r.kind = "Ok" =>
            /\ r.start_latency_correction = r.rx_value
            /\ IsCorrected <=> r.start_latency_correction # {}
            /\ r.start <= r.end
            /\ \A t \in r.start_latency_correction :
                   t <= r.start /\ r.end - t >= r.end - r.start
       /\ r.kind # "Ok" => r.start_latency_correction = {}

C15_Witness ==
    LET r == consumer.result
    IN /\ r.kind = "Ok"
       /\ \E t \in r.start_latency_correction : t < r.start /\ r.start < r.end

\* C16 as stated: with latency correction the payload of a token is the
\* instant the token was scheduled for (start + i * period, or the instant
\* the burst's sleep was set to end), not the instant the emitter ran at; so
\* a record's start_latency_correction is that scheduled instant. (Instants
\* read at the end of the clock's range are left out.)
C16_PayloadIsScheduledInstant ==
    /\ \A j \in 1 .. Len(tokens) :
           \A t \in tokens[j].payload : t < MaxClock => t = tokens[j].sched
    /\ \A t \in consumer.result.start_latency_correction :
           t < MaxClock => t = consumer.result.sched

\* ------------------------------------------- connecting and request building

notConn == <<cfg, schedVars, reqVars, paceVars, fastVars>>

\* http::Version, in the order of its PartialOrd.
HttpVersions == <<"HTTP_10", "HTTP_11", "HTTP_2", "HTTP_3">>

VersionRank(v) == CHOOSE k \in 1 .. Len(HttpVersions) : HttpVersions[k] = v

\* The Client's fields that choose the engine, the route and the request.
\* proxy_url is None or the proxy's scheme; url is the target's scheme and
\* its explicit port, if any.
ConnConfigs ==
    [ http_version : {HttpVersions[k] : k \in 1 .. Len(HttpVersions)},
      proxy_http_version : {"HTTP_11", "HTTP_2"},
      proxy_url : {{}, {"http"}, {"https"}},
      url : [scheme : {"http", "https"}, host : {"origin"},
             port : {{}, {8443}}],
      headers : {{"accept"}},
      proxy_headers : {{}, {"proxy-authorization"}} ]

is_http2(c) == c.http_version = "HTTP_2"

\* A test that takes everything but HTTP/2 for HTTP/1.
is_not_http2(c) == c.http_version # "HTTP_2"

is_http1(c) == VersionRank(c.http_version) <= VersionRank("HTTP_11")

is_proxy_http2(c) == c.proxy_http_version = "HTTP_2"

is_work_http2(c) ==
    IF c.proxy_url # {}
      THEN IF c.url.scheme = "https" THEN is_http2(c) ELSE is_proxy_http2(c)
      ELSE is_http2(c)

work_type(c) ==
    IF c.http_version = "HTTP_3" THEN "H3"
    ELSE IF is_work_http2(c) THEN "H2" ELSE "H1"

port_or_known_default(url) ==
    IF url.port # {} THEN Unwrap(url.port)
    ELSE IF url.scheme = "https" THEN 443 ELSE 80

\* One awaited step of a connect function, as it is seen on the wire.
Step(op) ==
    [ op |-> op, to |-> "none", tls |-> FALSE, version |-> "none",
      with_upgrade |-> FALSE, uri |-> <<>>, headers |-> {} ]

\* Client::client: lookup and transport to the proxy or to the origin; TLS
\* (or QUIC) is part of it when the dialed url is https (or for HTTP/3).
ClientStep(to, scheme, http_version) ==
    [Step("client") EXCEPT
        !.to = to,
        !.tls = (http_version = "HTTP_3" \/ scheme = "https"),
        !.version = http_version]

http_proxy_version(c) == IF is_proxy_http2(c) THEN "HTTP_2" ELSE "HTTP_11"

handshake_http1(with_upgrade) ==
    [Step("handshake_http1") EXCEPT !.with_upgrade = with_upgrade]

handshake_http2 == Step("handshake_http2")

handshake_http3 == Step("handshake_http3")

\* Headers of a request to the proxy that are those of the target's request.
target_headers(c) == c.headers

connect_headers(c) == c.proxy_headers

\* The CONNECT request sent to the proxy.
ConnectRequest(c) ==
    [Step("CONNECT") EXCEPT
        !.to = "proxy",
        !.uri = <<c.url.host, port_or_known_default(c.url)>>,
        !.headers = connect_headers(c)]

connect_tls(http_version) ==
    [Step("connect_tls") EXCEPT !.to = "origin", !.tls = TRUE,
                                !.version = http_version]

\* The request Client::request builds: uri form, version, header names.
request(c) ==
    LET use_proxy == c.proxy_url # {} /\ c.url.scheme = "http"
    IN [ uri |-> IF ~is_http1(c) \/ use_proxy THEN "absolute-form"
                 ELSE "origin-form",
         version |-> IF use_proxy THEN c.proxy_http_version
                     ELSE c.http_version,
         headers |-> IF use_proxy THEN c.headers \cup c.proxy_headers
                     ELSE c.headers ]

NoRequest == [uri |-> "none", version |-> "none", headers |-> {}]

\* The state before the engine's connect function is called.
ConnInit(c) ==
    [ conf |-> c, pc |-> "client", steps |-> <<>>, failed |-> "none",
      req |-> NoRequest ]

InitConn ==
    /\ cfg = CHOOSE c \in RequestConfigs : c.work_type = "H1"
    /\ client = DefaultClient
    /\ SchedInit
    /\ ReqInit
    /\ emitter = "none"
    /\ tokens = <<>>
    /\ consumer = "none"
    /\ px \in {ConnInit(c) : c \in ConnConfigs}
    /\ fast = "none"
    /\ h3 = "none"

\* The connect function the engine calls tunnels through the proxy:
\* client_http1 and connect_http2 do for an https target, connect_http3
\* never looks at proxy_url.
Tunnels(c) ==
    work_type(c) # "H3" /\ c.proxy_url # {} /\ c.url.scheme = "https"

\* The step is done: it is recorded and the function goes on at pc.
ConnGoes(step, pc) ==
    px' = [px EXCEPT !.steps = Append(@, step), !.pc = pc]

\* self.client(..): the proxy is dialed with the proxy's version, the origin
\* with HTTP/1.1 (client_http1), http_version (connect_http2) or HTTP/3.
ConnClient ==
    /\ px.pc = "client"
    /\ LET c == px.conf
           wt == work_type(c)
           step == IF wt = "H3"
                     THEN ClientStep("origin", c.url.scheme, "HTTP_3")
                   ELSE IF c.proxy_url # {}
                     THEN ClientStep("proxy", Unwrap(c.proxy_url),
                                     http_proxy_version(c))
                   ELSE ClientStep("origin", c.url.scheme,
                                   IF wt = "H1" THEN "HTTP_11"
                                   ELSE c.http_version)
       IN ConnGoes(step, IF Tunnels(c) THEN "proxy_handshake" ELSE "handshake")
    /\ UNCHANGED notConn

\* The handshake with the proxy that the CONNECT request is sent on.
ConnProxyHandshake ==
    /\ px.pc = "proxy_handshake"
    /\ ConnGoes(IF px.conf.proxy_http_version = "HTTP_2" THEN handshake_http2
                ELSE handshake_http1(TRUE),
                "send_connect")
    /\ UNCHANGED notConn

\* send_request.send_request(req) has returned the proxy's response.
ConnSendConnect ==
    /\ px.pc = "send_connect"
    /\ ConnGoes(ConnectRequest(px.conf), "upgrade")
    /\ UNCHANGED notConn

\* hyper::upgrade::on(res) has yielded the tunnel's byte stream.
ConnUpgrade ==
    /\ px.pc = "upgrade"
    /\ ConnGoes(Step("upgrade"), "connect_tls")
    /\ UNCHANGED notConn

\* TLS to the origin inside the tunnel: with http_version in client_http1,
\* with HTTP/2 in connect_http2.
ConnConnectTls ==
    /\ px.pc = "connect_tls"
    /\ ConnGoes(connect_tls(IF work_type(px.conf) = "H1"
                              THEN px.conf.http_version ELSE "HTTP_2"),
                "handshake")
    /\ UNCHANGED notConn

\* The handshake that yields the send-handle the function returns.
ConnHandshake ==
    /\ px.pc = "handshake"
    /\ LET wt == work_type(px.conf)
       IN ConnGoes(IF wt = "H3" THEN handshake_http3
                   ELSE IF wt = "H2" THEN handshake_http2
                   ELSE handshake_http1(FALSE),
                   "ready")
    /\ UNCHANGED notConn

\* The awaited step fails: `?` returns the error from the connect function.
ConnFail ==
    /\ px.pc \in {"client", "proxy_handshake", "send_connect", "upgrade",
                  "connect_tls", "handshake"}
    /\ px' = [px EXCEPT !.pc = "err", !.failed = px.pc]
    /\ UNCHANGED notConn

\* The engine builds the request it sends on the connection.
BuildRequest ==
    /\ px.pc = "ready"
    /\ px' = [px EXCEPT !.pc = "done", !.req = request(px.conf)]
    /\ UNCHANGED notConn

NextConn ==
    \/ ConnClient
    \/ ConnProxyHandshake
    \/ ConnSendConnect
    \/ ConnUpgrade
    \/ ConnConnectTls
    \/ ConnHandshake
    \/ ConnFail
    \/ BuildRequest

SpecConn == InitConn /\ [][NextConn]_vars

\* ---------------------------------------------------- connecting properties

\* C17: with a proxy and an https target, on the H1 and the H2 connect path,
\* the steps done are a prefix of: dial the proxy, handshake of the proxy's
\* HTTP version, CONNECT host:port (the url's port or 443) with exactly the
\* proxy headers, upgrade, TLS to the origin, handshake of the target's HTTP
\* version. Nothing goes to the origin before the upgrade; a step that fails
\* ends the sequence with the steps before it and no request; the connection
\* is ready only after all six.
C17_TunnelOrder ==
    LET c == px.conf
        s == px.steps
        proxy_version == c.proxy_http_version
        expected ==
          << "client",
             IF proxy_version = "HTTP_2" THEN "handshake_http2"
             ELSE "handshake_http1",
             "CONNECT", "upgrade", "connect_tls",
             IF c.http_version = "HTTP_2" THEN "handshake_http2"
             ELSE "handshake_http1" >>
        awaits == << "client", "proxy_handshake", "send_connect", "upgrade",
                     "connect_tls", "handshake" >>
    IN (c.proxy_url # {} /\ c.url.scheme = "https" /\ c.http_version # "HTTP_3")
       =>
       /\ Len(s) <= Len(expected)
       /\ \A k \in 1 .. Len(s) :
             /\ s[k].op = expected[k]
             /\ k < 5 => s[k].to # "origin"
             /\ k = 1 => s[k].to = "proxy" /\ s[k].version = proxy_version
             /\ k = 3 => /\ s[k].uri = << c.url.host,
                                         IF c.url.port = {} THEN 443
                                         ELSE Unwrap(c.url.port) >>
                         /\ s[k].headers = c.proxy_headers
             /\ k = 5 => /\ s[k].to = "origin" /\ s[k].tls
                         /\ s[k].version = c.http_version
       /\ px.pc \in {"ready", "done"} => Len(s) = Len(expected)
       /\ px.pc = "err" =>
             /\ Len(s) < Len(expected)
             /\ px.failed = awaits[Len(s) + 1]
             /\ px.req = NoRequest

C17_Witness ==
    /\ px.conf.proxy_url # {}
    /\ px.conf.url.scheme = "https"
    /\ px.conf.http_version = "HTTP_2"
    /\ px.conf.proxy_http_version = "HTTP_11"
    /\ px.conf.url.port = {}
    /\ px.conf.proxy_headers # {}
    /\ px.pc = "done"
    /\ Len(px.steps) = 6

\* C18: for every target version, proxy version, proxy presence and target
\* scheme, the request has the origin-form uri iff the engine that work_type
\* selects is H1 and the request is not one for an http target sent through
\* a proxy; else it has the absolute-form uri.
C18_OriginFormIffH1Direct ==
    px.pc = "done" =>
        LET c == px.conf
            origin == /\ work_type(c) = "H1"
                      /\ ~(c.proxy_url # {} /\ c.url.scheme = "http")
        IN px.req.uri = IF origin THEN "origin-form" ELSE "absolute-form"

C18_Witness ==
    /\ px.pc = "done"
    /\ px.conf.proxy_url # {}
    /\ px.conf.url.scheme = "https"
    /\ px.conf.proxy_http_version = "HTTP_2"
    /\ px.conf.http_version = "HTTP_10"
    /\ px.req.uri = "origin-form"

\* ------------------------------------------------------------- the fast path

notFast == <<cfg, schedVars, reqVars, paceVars, connVars, h3>>

\* The arguments of fast::work (counting) and fast::work_until. The threads
\* share out the connections; every connection task and stream task may run
\* on a thread of its own, so their steps interleave at every atomic access.
FastConfigs ==
    { c \in [ work_type : {"H1", "H2", "H3"},
              counting : BOOLEAN,
              n_tasks : 0 .. MaxTasks,
              wait_ongoing : BOOLEAN,
              n_connections : 1 .. MaxStreams,
              n_http_parallel : 1 .. MaxStreams ] :
        /\ c.n_connections * c.n_http_parallel <= MaxStreams
        /\ c.work_type = "H1" => c.n_http_parallel = 1
        /\ c.counting => ~c.wait_ongoing
        /\ ~c.counting => c.n_tasks = 0 }

FastConns == 1 .. fast.conf.n_connections

FastStreams == FastConns \X (1 .. fast.conf.n_http_parallel)

\* fetch_sub(1) on the AtomicIsize that starts at n_tasks (H1, H2),
\* fetch_add(1) on the AtomicUsize that starts at 0 (H3).
Take(wt, counter) == IF wt = "H3" THEN counter + 1 ELSE counter - 1

\* A test that lets the value after the last unit pass.
ExhaustedLate(wt, prev, n_tasks) ==
    IF wt = "H3" THEN prev > n_tasks ELSE prev < 0

\* The test on the value the fetch returned.
Exhausted(wt, prev, n_tasks) ==
    IF wt = "H3" THEN prev >= n_tasks ELSE prev <= 0

\* Units of budget taken so far.
Taken ==
    IF fast.conf.work_type = "H3" THEN fast.counter
    ELSE fast.conf.n_tasks - fast.counter

FastInit(c) ==
    [ conf |-> c,
      counter |-> IF c.work_type = "H3" THEN 0 ELSE c.n_tasks,
      is_end |-> FALSE,
      cancelled |-> FALSE,
      main_pc |-> IF c.counting THEN "join" ELSE "run",
      cw |-> [i \in 1 .. c.n_connections |->
                [pc |-> IF c.work_type = "H1" THEN "none" ELSE "dial",
                 has_err |-> FALSE]],
      st |-> [s \in (1 .. c.n_connections) \X (1 .. c.n_http_parallel) |->
                [pc |-> IF c.work_type = "H1" THEN "new" ELSE "none",
                 ret |-> FALSE, deadlines |-> 0,
                 recs |-> 0, sends |-> 0, batch |-> 0]],
      started |-> 0,
      pushed |-> 0,
      dial_errs |-> 0 ]

InitFast ==
    /\ cfg = CHOOSE c \in RequestConfigs : c.work_type = "H1"
    /\ client = DefaultClient
    /\ SchedInit
    /\ ReqInit
    /\ emitter = "none"
    /\ tokens = <<>>
    /\ consumer = "none"
    /\ px = "none"
    /\ fast \in {FastInit(c) : c \in FastConfigs}
    /\ h3 = "none"

\* The top of a worker's or stream task's loop: with a counter, one unit is
\* taken and the task leaves the loop at exhaustion.
FastTop(s) ==
    /\ fast.st[s].pc \in {"new", "top"}
    /\ LET c == fast.conf
       IN IF c.counting
            THEN fast' = [fast EXCEPT
                    !.counter = Take(c.work_type, @),
                    !.st[s] = IF Exhausted(c.work_type, fast.counter, c.n_tasks)
                                THEN [@ EXCEPT !.pc = "exit", !.ret = TRUE]
                                ELSE [@ EXCEPT !.pc = "start"]]
            ELSE fast' = [fast EXCEPT !.st[s].pc = "start"]
    /\ UNCHANGED notFast

\* work_http1 / work_http2 / work_http3 is called. Without a counter the
\* model stops after MaxTasks requests.
FastStart(s) ==
    /\ fast.st[s].pc = "start"
    /\ fast.conf.counting \/ fast.started < MaxTasks
    /\ fast' = [fast EXCEPT !.st[s].pc = "req", !.started = @ + 1]
    /\ UNCHANGED notFast

\* The request returns r: it is pushed to the batch, then is_end is read.
FastComplete(s, r) ==
    /\ fast.st[s].pc = "req"
    /\ LET wt == fast.conf.work_type
           is_cancel == IF wt = "H1" THEN is_cancel_error(r)
                        ELSE is_cancel_error(r) \/ fast.is_end
           leaves == IF wt = "H1" THEN is_cancel \/ fast.is_end
                     ELSE is_cancel \/ is_reconnect_error(wt, r)
       IN fast' = [fast EXCEPT
                      !.pushed = @ + 1,
                      !.st[s] = IF leaves
                                  THEN [@ EXCEPT !.pc = "exit", !.ret = is_cancel,
                                                 !.recs = @ + 1]
                                ELSE [@ EXCEPT !.pc = "top", !.recs = @ + 1]]
    /\ UNCHANGED notFast

\* A task that is out of its work future, too, counts as suspended in it.
SuspendedOrLeft(pc) == pc \in {"new", "req", "exit"}

\* The work future is suspended: not polled yet, or pending on its request.
Suspended(pc) == pc \in {"new", "req"}

\* select!: the token is cancelled and the poll takes the cancelled()
\* branch, at the task's first poll or with its request in flight: the work
\* future is dropped and Deadline is pushed. (A poll that takes the work
\* branch first goes on with FastComplete.)
FastCancelled(s) ==
    /\ fast.cancelled
    /\ Suspended(fast.st[s].pc)
    /\ fast' = [fast EXCEPT !.st[s] = [@ EXCEPT !.pc = "exit", !.ret = TRUE,
                                                !.deadlines = @ + 1,
                                                !.recs = @ + 1]]
    /\ UNCHANGED notFast

\* A task that sends its batch and stays where it was.
FastSendAgain(s) ==
    /\ fast.st[s].pc = "exit"
    /\ fast' = [fast EXCEPT !.st[s] = [@ EXCEPT !.sends = @ + 1,
                                                !.batch = @ + fast.st[s].recs]]
    /\ UNCHANGED notFast

\* report_tx.send(result_data): result_data, with every record pushed to
\* it, is moved into the channel and the task ends.
FastSend(s) ==
    /\ fast.st[s].pc = "exit"
    /\ fast' = [fast EXCEPT !.st[s] = [@ EXCEPT !.pc = "done",
                                                !.sends = @ + 1,
                                                !.batch = @ + fast.st[s].recs]]
    /\ UNCHANGED notFast

\* setup_http2 / setup_http3 returns a connection: the stream tasks are
\* spawned.
FastDialOk(i) ==
    /\ fast.cw[i].pc = "dial"
    /\ fast' = [fast EXCEPT
                  !.cw[i].pc = "wait",
                  !.st = [s \in DOMAIN @ |->
                            IF s[1] = i
                              THEN [pc |-> "new", ret |-> FALSE,
                                    deadlines |-> 0,
                                    recs |-> 0, sends |-> 0, batch |-> 0]
                            ELSE @[s]]]
    /\ UNCHANGED notFast

\* setup_http2 / setup_http3 fails: the error is pushed to result_data_err,
\* then the loop ends when is_end is set or, with a counter, when the unit
\* it takes finds the budget exhausted. Without a counter the model stops
\* after MaxTasks dial errors.
FastDialFail(i) ==
    /\ fast.cw[i].pc = "dial"
    /\ fast.conf.counting \/ fast.dial_errs < MaxTasks
    /\ LET c == fast.conf
       IN IF fast.is_end
            THEN fast' = [fast EXCEPT !.cw[i] = [pc |-> "exit", has_err |-> TRUE],
                                      !.dial_errs = @ + 1]
          ELSE IF c.counting
            THEN fast' = [fast EXCEPT
                    !.counter = Take(c.work_type, @),
                    !.cw[i] = [pc |-> IF Exhausted(c.work_type, fast.counter,
                                                   c.n_tasks)
                                        THEN "exit" ELSE "dial",
                               has_err |-> TRUE],
                    !.dial_errs = @ + 1]
          ELSE fast' = [fast EXCEPT !.cw[i].has_err = TRUE,
                                    !.dial_errs = @ + 1]
    /\ UNCHANGED notFast

\* All stream tasks of the connection are awaited: the connection-worker ends
\* if one of them returned true, else it dials anew.
FastJoin(i) ==
    /\ fast.cw[i].pc = "wait"
    /\ \A s \in FastStreams : s[1] = i => fast.st[s].pc = "done"
    /\ LET connection_gone == \E s \in FastStreams : s[1] = i /\ fast.st[s].ret
       IN fast' = [fast EXCEPT
                     !.cw[i].pc = IF connection_gone THEN "exit" ELSE "dial"]
    /\ UNCHANGED notFast

\* The connection-worker sends its batch of dial errors, if any, and ends.
FastCwSend(i) ==
    /\ fast.cw[i].pc = "exit"
    /\ fast' = [fast EXCEPT !.cw[i].pc = "done"]
    /\ UNCHANGED notFast

\* fast::work_until: the deadline (or ctrl-c) comes, is_end is stored.
FastDeadline ==
    /\ fast.main_pc = "run"
    /\ fast' = [fast EXCEPT !.is_end = TRUE, !.main_pc = "end"]
    /\ UNCHANGED notFast

\* fast::work_until: the token is cancelled unless ongoing requests are
\* waited for.
FastAfterEnd ==
    /\ fast.main_pc = "end"
    /\ fast' = [fast EXCEPT !.cancelled = ~fast.conf.wait_ongoing,
                            !.main_pc = "join"]
    /\ UNCHANGED notFast

\* fast::work: ctrl-c cancels the token.
FastCtrlC ==
    /\ fast.conf.counting
    /\ fast.main_pc = "join"
    /\ ~fast.cancelled
    /\ fast' = [fast EXCEPT !.cancelled = TRUE]
    /\ UNCHANGED notFast

\* Every thread is joined.
FastJoined ==
    /\ fast.main_pc = "join"
    /\ \A i \in FastConns : fast.cw[i].pc \in {"none", "done"}
    /\ \A s \in FastStreams : fast.st[s].pc \in {"none", "done"}
    /\ fast' = [fast EXCEPT !.main_pc = "done"]
    /\ UNCHANGED notFast

NextFast ==
    \/ \E s \in FastStreams :
          \/ FastTop(s)
          \/ FastStart(s)
          \/ \E r \in RequestOutcomes(fast.conf.work_type) : FastComplete(s, r)
          \/ FastCancelled(s)
          \/ FastSend(s)
    \/ \E i \in FastConns :
          \/ FastDialOk(i)
          \/ FastDialFail(i)
          \/ FastJoin(i)
          \/ FastCwSend(i)
    \/ FastDeadline
    \/ FastAfterEnd
    \/ FastCtrlC
    \/ FastJoined

SpecFast == InitFast /\ [][NextFast]_vars

\* ------------------------------------------------------ fast path properties

\* C19: fast path with a counter: under every interleaving of the workers
\* and stream tasks on the shared counter, a request is started only after a
\* unit of budget was taken for it, and the requests started never exceed
\* n_tasks.
C19_StartedAtMostN ==
    fast.conf.counting =>
        /\ fast.started <= fast.conf.n_tasks
        /\ fast.started <= Taken

C19_Witness ==
    /\ fast.conf.counting
    /\ fast.conf.n_tasks = MaxTasks
    /\ fast.conf.n_connections * fast.conf.n_http_parallel = MaxStreams
    /\ fast.started = MaxTasks
    /\ Taken > MaxTasks
    /\ \A s \in FastStreams : fast.st[s].pc = "done"

\* C20 as stated: fast path in deadline mode: once is_end is set no worker
\* and no stream task starts a new request.
C20_NoStartAfterEnd ==
    [][ (~fast.conf.counting /\ fast.is_end) => fast'.started = fast.started
      ]_vars

C32_ExactlyNRecords ==
    (fast.conf.counting /\ ~fast.cancelled /\ fast.main_pc = "done") =>
        fast.pushed + fast.dial_errs = fast.conf.n_tasks

\* C33: fast path batching: a task sends its batch once, when it has left
\* its work loop, and the batch holds every record the task pushed; a task
\* that has sent pushes nothing more; when its connection-worker dials again
\* or the threads are joined, every task that ran has sent.
C33_OneBatchPerTask ==
    /\ [](\A s \in FastStreams :
            /\ fast.st[s].sends <= 1
            /\ fast.st[s].sends = 1 <=> fast.st[s].pc = "done"
            /\ fast.st[s].sends = 1 => fast.st[s].batch = fast.st[s].recs
            /\ fast.st[s].sends = 0 => fast.st[s].batch = 0
            /\ fast.main_pc = "done" =>
                  (fast.st[s].pc = "none" \/ fast.st[s].sends = 1))
    /\ [][ \A s \in FastStreams :
             /\ fast'.st[s].sends = fast.st[s].sends + 1 =>
                   /\ fast.st[s].pc = "exit"
                   /\ fast'.st[s].batch = fast.st[s].recs
                   /\ fast'.st[s].recs = fast.st[s].recs
             /\ (fast.st[s].sends = 1 /\ fast'.st[s].sends = 1) =>
                   fast'.st[s] = fast.st[s]
             /\ (fast.st[s].sends = 1 /\ fast'.st[s].sends = 0) =>
                   /\ fast.cw[s[1]].pc = "dial"
                   /\ fast'.st[s].pc = "new"
       ]_vars

\* Two tasks have sent: one a batch of two request results, the other a
\* batch that ends with the Deadline record of its cancellation.
C33_Witness ==
    /\ fast.main_pc = "done"
    /\ \E s, u \in FastStreams :
          /\ fast.st[s].sends = 1
          /\ fast.st[s].batch = 2
          /\ fast.st[s].deadlines = 0
          /\ fast.st[u].sends = 1
          /\ fast.st[u].batch >= 1
          /\ fast.st[u].deadlines = 1

\* ------------------------------------------------ request engine, continued

\* C22: an H1 request that follows redirects yields one result: every
\* request in progress ends with exactly one record, and the status and the
\* byte count of an Ok record are those of the last response fetched, one
\* response per hop, never those of a redirect response that was followed,
\* for every chain of up to redirect_limit hops.
C22_TerminalResponseReported ==
    [][ /\ nreq' # nreq => /\ nreq' = nreq + 1
                           /\ rq.pc # "idle"
                           /\ rq'.pc = "idle"
                           /\ result.kind = "none"
        /\ (IsH1 /\ nreq' # nreq /\ result'.kind = "Ok") =>
              LET last == rq.resp[Len(rq.resp)]
              IN /\ Len(rq.resp) = rq.hops + 1
                 /\ rq.hops <= client.redirect_limit
                 /\ result'.status = last.status
                 /\ result'.len_bytes = last.len_bytes
                 /\ \A k \in 1 .. rq.hops : rq.resp[k].status = 302
                 /\ rq.hops > 0 => result'.status = 200
      ]_vars

C22_Witness ==
    /\ IsH1
    /\ result.kind = "Ok"
    /\ result.hops = MaxRedirectLimit
    /\ client.redirect_limit = MaxRedirectLimit
    /\ result.status = 200
    /\ result.first_byte # {}
    /\ result.len_bytes = 0

\* ------------------------------------------------------ scheduler, continued

\* C23: H2/H3 connection-worker: once a stream task it joined has returned
\* true (cancel), connection_gone stays set while the other stream tasks of
\* the connection are joined, whatever they return, and the connection-worker
\* ends without dialing again.
C23_CancelWinsOverReconnect ==
    [][ \A i \in Conns :
          /\ (\E s \in Awaited(i) : s.pc = "true") /\ CwJoin(i) =>
                /\ cw'[i].pc \in {"join", "done"}
                /\ cw'[i].pc = "join" => cw'[i].gone
          /\ (cw[i].pc = "join" /\ cw[i].gone) =>
                /\ cw'[i].pc \in {"join", "done"}
                /\ cw'[i].pc = "join" => cw'[i].gone
      ]_vars

C23_Witness ==
    \E i \in Conns :
       /\ cw[i].pc = "join"
       /\ cw[i].gone
       /\ ~s_closed
       /\ \E s \in Awaited(i) : s.pc = "false"

\* The token channel can still yield a token.
TokensRemain == rx_len > 0 \/ (tx_open /\ emitted < cfg.n_tasks)

\* A stream task of connection-worker i's live connection has returned
\* "reconnect" (a reconnect-class error that is not cancel-class) while tokens
\* remain and the deadline has not passed.
ReconnectObserved(i) ==
    /\ i \in Conns
    /\ cw[i].pc = "join"
    /\ TokensRemain
    /\ ~deadline_passed
    /\ \E s \in streams : s.c = i /\ ~s.old /\ ~s.det /\ s.pc = "false"

\* C24 as stated: whenever a stream task has observed a reconnect-class,
\* non-cancel error while tokens remain and the deadline has not passed, its
\* connection-worker eventually dials a new connection.
C24_ReconnectAlwaysRedials ==
    \A i \in 1 .. MaxStreams :
        ReconnectObserved(i) ~> (i \in Conns /\ cw[i].pc = "dial")

\* C24 amended: ... its connection-worker eventually finishes joining the
\* stream tasks of that connection, and then dials anew with no stream task
\* of the old connection left, unless a stream task of the connection
\* returned cancel or the semaphore was closed during the join, in which case
\* it exits; every dial that succeeds spawns M stream tasks on the new
\* connection.
C24_ReconnectRedialsUnlessGone ==
    /\ \A i \in 1 .. MaxStreams :
          ReconnectObserved(i) ~>
              /\ i \in Conns
              /\ \/ cw[i].pc = "dial"
                 \/ cw[i].pc = "done" /\ cw[i].gone
    /\ [][ \A i \in Conns :
             /\ (cw[i].pc = "join" /\ cw'[i].pc = "dial") =>
                   /\ ~cw'[i].gone
                   /\ ~ \E s \in streams' : s.c = i
             /\ (cw[i].pc = "join" /\ cw'[i].pc = "done") => cw'[i].gone
             /\ CwDialOk(i) =>
                   /\ cw'[i].pc = "join"
                   /\ \A k \in 1 .. cfg.n_http2_parallel :
                         [c |-> i, k |-> k, old |-> FALSE, pc |-> "recv",
                          det |-> FALSE] \in streams'
                   /\ Cardinality({s \in streams' : s.c = i /\ ~s.old})
                          = cfg.n_http2_parallel
         ]_vars

\* A connection with two stream tasks: one has returned reconnect while a
\* token remains, the other, which the connection-worker awaits first, is
\* still waiting for a token.
C24_Witness ==
    \E i \in Conns :
       /\ ReconnectObserved(i)
       /\ cfg.n_http2_parallel = 2
       /\ cw[i].j = 1
       /\ ~cw[i].gone
       /\ \E s \in Awaited(i) : s.pc = "recv"

\* C25 as stated: when the semaphore is closed while a connection-worker is
\* joining its stream tasks, the connection-worker reports exactly one
\* Deadline, however many of its stream tasks are unfinished, and exits
\* without dialing again.
C25_OneDeadlinePerConnectionWorker ==
    /\ [](\A i \in Conns : cw[i].deadlines <= 1)
    /\ [][ \A i \in Conns :
             (cw[i].pc = "join" /\ s_closed) => cw'[i].pc # "dial" ]_vars
    /\ \A i \in 1 .. MaxStreams :
          (i \in Conns /\ cw[i].pc = "join" /\ s_closed) ~>
              (i \in Conns /\ cw[i].pc = "done" /\ cw[i].deadlines = 1)

\* C26 as stated: in open-loop deadline mode an H1 worker whose request
\* completed before the deadline, with a result that is not cancel-class,
\* goes back to the token channel; it ends only on the deadline, on a closed
\* channel or on a cancel-class error.
C26_H1WorkerRunsUntilDeadline ==
    [][ \A i \in Conns : \A r \in RequestOutcomes("H1") :
          ( /\ H1Complete(i, r)
            /\ has_deadline
            /\ ~deadline_passed
            /\ ~is_cancel_error(r) ) => worker'[i].pc = "recv"
      ]_vars

\* ---------------------------------------------- H1 handles and redirect chains

\* C27: after one work_http1 call: when it returns Ok the worker's cached
\* handle is Some exactly when keep-alive is enabled; when its send_request
\* fails, the handle the request was sent on is put back, with keep-alive
\* enabled or not, and the record is that error.
C27_HandleRetention ==
    [][ /\ (nreq' # nreq /\ result'.kind = "Ok") =>
              (client_state' # "none" <=> ~client.disable_keepalive)
        /\ \A err \in TransportErrors("H1") :
              (SendErr(err) /\ rq.hops = 0) =>
                  /\ rq.send_request # "none"
                  /\ client_state' = rq.send_request
                  /\ result'.kind = err
                  /\ nreq' = nreq + 1
        /\ rq.pc \notin {"idle", "sent", "body"} => client_state' = client_state
        /\ (rq.pc # "idle" /\ nreq' = nreq) => client_state' = "none"
      ]_vars

C27_Witness ==
    /\ client.disable_keepalive
    /\ rq.pc = "idle"
    /\ result.kind \in TransportErrors("H1")
    /\ result.hops = 0
    /\ client_state = "A"

\* C28 as stated: with keep-alive disabled every Ok record of an H1 worker
\* has connection_time, whatever the worker's earlier requests returned.
C28_OkHasConnectionTime ==
    (IsH1 /\ client.disable_keepalive /\ result.kind = "Ok") =>
        result.connection_time # {}

\* C28 amended: with keep-alive disabled every Ok record of an H1 worker has
\* connection_time, except after a request whose send_request failed: the
\* handle that was put back is taken by the next request, whose Ok record has
\* connection_time only if the readiness test failed and work_http1 dialed.
\* Nothing else leaves a handle in the worker's state.
C28_OkHasConnectionTimeUnlessPutBack ==
    [][ (IsH1 /\ client.disable_keepalive) =>
          /\ (nreq' # nreq /\ result'.kind = "Ok" /\ ~rq.cached) =>
                result'.connection_time # {}
          /\ (nreq' # nreq /\ result'.kind = "Ok" /\ rq.cached) =>
                (result'.connection_time # {} <=> "work_http1" \in rq.opened)
          /\ (rq.pc = "idle" /\ rq'.pc # "idle") =>
                /\ rq'.cached <=> client_state # "none"
                /\ rq'.cached =>
                      /\ result.kind \in TransportErrors("H1")
                      /\ result.hops = 0
      ]_vars

C28_Witness ==
    /\ IsH1
    /\ client.disable_keepalive
    /\ nreq = MaxTasks
    /\ result.kind = "Ok"
    /\ result.cached
    /\ result.connection_time # {}

\* C29: H1 redirects: redirect() goes on with the handle in hand exactly when
\* the new authority is that of the hop before and keep-alive is enabled, and
\* dials otherwise; the Host header of its request is replaced exactly when
\* the authority differs from that of the hop before; after a chain that
\* succeeds, the handle the worker gets back is connected to the authority of
\* the first URL. The worker's state never holds a handle to another
\* authority.
C29_RedirectHandleOwnership ==
    [][ IsH1 =>
          /\ \A auth \in Authorities :
                RedirectFollow(auth) =>
                   /\ IF auth = rq.url /\ ~client.disable_keepalive
                        THEN /\ rq'.pc = "ready"
                             /\ rq'.send_request = rq.send_request
                             /\ rq'.opened = rq.opened
                        ELSE /\ rq'.pc = "dns"
                             /\ rq'.send_request = "none"
                   /\ rq'.host = auth <=> auth # rq.url
                   /\ rq'.host = "static" <=> auth = rq.url
          /\ (rq.pc = "sent" /\ rq'.pc = "body") => rq.send_request = rq.url
          /\ (nreq' # nreq /\ result'.kind = "Ok") =>
                client_state' = IF client.disable_keepalive THEN "none"
                                ELSE "A"
          /\ client_state' \in {"none", "A"}
      ]_vars

\* A chain of two hops that succeeded with keep-alive enabled: redirect()
\* dialed, the last hop kept the authority of the hop before it and so the
\* Host header of the header map, and the worker has the handle to A.
C29_Witness ==
    /\ IsH1
    /\ result.kind = "Ok"
    /\ result.hops = 2
    /\ result.opened = {"work_http1", "redirect"}
    /\ result.host = "static"
    /\ client_state = "A"

\* C30: the readiness loop of work_http1: a request is sent only after a
\* readiness test of the handle in hand has succeeded; a readiness test that
\* fails takes start anew and dials; an Ok record made after such failures
\* has the connection_time of a dial begun after the last of them, and its
\* start is not earlier than that failure; a dial that fails ends the request
\* with its error and leaves no handle in the worker's state.
C30_ReadinessLoop ==
    [][ IsH1 =>
          /\ (rq.pc # "sent" /\ rq'.pc = "sent") =>
                /\ rq.pc = "ready"
                /\ rq'.send_request = rq.send_request
                /\ rq.send_request # "none"
          /\ (rq.pc = "ready" /\ rq'.pc \notin {"ready", "sent", "idle"}) =>
                /\ rq'.pc = "dns"
                /\ rq'.send_request = "none"
                /\ rq.hops = 0 => rq'.start = now /\ rq'.ready_failed = {now}
          /\ (nreq' # nreq /\ result'.kind = "Ok") =>
                \A t \in rq.ready_failed :
                   /\ result'.start >= t
                   /\ result'.connection_time # {}
                   /\ \A ct \in result'.connection_time :
                         t <= ct.dns_lookup /\ ct.dns_lookup <= ct.dialup
                                            /\ ct.dialup <= result'.end
          /\ (rq.pc \in {"dns", "handshake"} /\ nreq' # nreq) =>
                /\ result'.kind \in DialErrors \cup {"Timeout"}
                /\ client_state' = "none"
      ]_vars

\* An Ok record of a request that dialed, found the handle not ready at a
\* later instant, and dialed again.
C30_Witness ==
    /\ IsH1
    /\ result.kind = "Ok"
    /\ ~result.cached
    /\ \E t \in result.ready_failed :
          /\ t > 0
          /\ result.start = t
          /\ \E ct \in result.connection_time : ct.dns_lookup > t

\* ------------------------------------- H3 connection-worker and its drivers

notH3 == <<cfg, schedVars, reqVars, paceVars, connVars, fast>>

\* The arguments of create_and_load_up_single_connection_http3 and the run
\* it is part of.
H3Configs ==
    [ n_http3_parallel : 1 .. MaxStreams,
      n_tasks : 0 .. MaxTasks,
      has_deadline : BOOLEAN ]

\* One connection-worker before its first dial.
\*   pc      "dial", "join", "signal", "await", "done"
\*   left    tokens the channel can still yield
\*   closed  the semaphore is closed
\*   j, gone the future being joined, connection_gone
\*   deadlines  Err(Deadline) records the connection-worker has reported
\*   conns   one record per connection dialed, oldest first:
\*             tx      shutdown_tx: "held", "sent" or "dropped"
\*             driver  the driver task: "run", "shutdown" or "ended"
\*             joined  http3_driver.await has returned
H3Init(c) ==
    [ conf |-> c, pc |-> "dial", left |-> c.n_tasks, closed |-> FALSE,
      j |-> 1, gone |-> FALSE, deadlines |-> 0, conns |-> <<>> ]

InitH3 ==
    /\ cfg = CHOOSE c \in RequestConfigs : c.work_type = "H3"
    /\ client = DefaultClient
    /\ SchedInit
    /\ ReqInit
    /\ emitter = "none"
    /\ tokens = <<>>
    /\ consumer = "none"
    /\ px = "none"
    /\ fast = "none"
    /\ h3 \in {H3Init(c) : c \in H3Configs}

\* sleep_until(deadline) is over: s.close().
H3Close ==
    /\ h3.conf.has_deadline
    /\ ~h3.closed
    /\ h3' = [h3 EXCEPT !.closed = TRUE]
    /\ UNCHANGED notH3

\* setup_http3 succeeds: the one-shot channel is made, the driver and the
\* stream tasks are spawned.
H3DialOk ==
    /\ h3.pc = "dial"
    /\ h3' = [h3 EXCEPT !.pc = "join", !.j = 1, !.gone = FALSE,
                        !.conns = Append(@, [tx |-> "held", driver |-> "run",
                                             joined |-> FALSE])]
    /\ UNCHANGED notH3

\* setup_http3 fails: break when the semaphore is closed, else report the
\* error against a token, or return when the channel is closed.
H3DialFail ==
    /\ h3.pc = "dial"
    /\ h3' = IF h3.closed \/ h3.left = 0 THEN [h3 EXCEPT !.pc = "done"]
             ELSE [h3 EXCEPT !.left = @ - 1]
    /\ UNCHANGED notH3

\* A stream task serves a token and goes on.
H3Serve ==
    /\ h3.pc = "join"
    /\ h3.left > 0
    /\ h3' = [h3 EXCEPT !.left = @ - 1]
    /\ UNCHANGED notH3

\* After one iteration of `for f in futures` that left connection_gone =
\* gone: the next future; after the last one `if connection_gone`, or the
\* end of the match arm, where shutdown_tx and http3_driver go out of scope.
H3Leave(w, gone) ==
    IF w.j < w.conf.n_http3_parallel
      THEN [w EXCEPT !.j = @ + 1, !.gone = gone]
      ELSE [w EXCEPT !.gone = gone, !.pc = IF gone THEN "signal" ELSE "dial",
                     !.conns[Len(w.conns)].tx = IF gone THEN @ ELSE "dropped"]

\* select!: the branch r = f. The stream task returned r: false after a
\* request that asked for a reconnect, true after a cancelled request or
\* (served = FALSE) when rx.recv() failed on the closed, drained channel.
H3Join(r, served) ==
    /\ h3.pc = "join"
    /\ served => h3.left > 0
    /\ ~served => r /\ h3.left = 0
    /\ h3' = H3Leave([h3 EXCEPT !.left = IF served THEN @ - 1 ELSE @],
                     h3.gone \/ r)
    /\ UNCHANGED notH3

\* select!: the branch s.acquire().
H3JoinDeadline ==
    /\ h3.pc = "join"
    /\ h3.closed
    /\ h3' = H3Leave([h3 EXCEPT !.deadlines = @ + 1], TRUE)
    /\ UNCHANGED notH3

\* let _ = shutdown_tx.send(0);
H3Signal ==
    /\ h3.pc = "signal"
    /\ h3' = [h3 EXCEPT !.pc = "await", !.conns[Len(h3.conns)].tx = "sent"]
    /\ UNCHANGED notH3

\* let _ = http3_driver.await; return;
H3Awaited ==
    /\ h3.pc = "await"
    /\ h3.conns[Len(h3.conns)].driver = "ended"
    /\ h3' = [h3 EXCEPT !.pc = "done", !.conns[Len(h3.conns)].joined = TRUE]
    /\ UNCHANGED notH3

\* Driver k: shutdown_rx resolves, with the value sent or with the error of
\* a dropped sender; h3_connection.shutdown(0) is begun.
DriverShutdown(k) ==
    /\ h3.conns[k].driver = "run"
    /\ h3.conns[k].tx # "held"
    /\ h3' = [h3 EXCEPT !.conns[k].driver = "shutdown"]
    /\ UNCHANGED notH3

\* Driver k: poll_close returns (the connection has closed, on its own or
\* after the shutdown), or shutdown(0) fails: the task ends.
DriverEnds(k) ==
    /\ h3.conns[k].driver \in {"run", "shutdown"}
    /\ h3' = [h3 EXCEPT !.conns[k].driver = "ended"]
    /\ UNCHANGED notH3

NextH3 ==
    \/ H3Close
    \/ H3DialOk
    \/ H3DialFail
    \/ H3Serve
    \/ \E r, served \in BOOLEAN : H3Join(r, served)
    \/ H3JoinDeadline
    \/ H3Signal
    \/ H3Awaited
    \/ \E k \in 1 .. Len(h3.conns) : DriverShutdown(k)
    \/ \E k \in 1 .. Len(h3.conns) : DriverEnds(k)

SpecH3 == InitH3 /\ [][NextH3]_vars

\* C31 as stated: whenever the connection-worker has left a connection, to
\* dial the next one or to exit, it has sent the shutdown signal to that
\* connection's driver and has awaited the driver.
C31_DriverShutDownAndAwaited ==
    h3.pc \in {"dial", "done"} =>
        \A k \in 1 .. Len(h3.conns) :
            /\ h3.conns[k].tx = "sent"
            /\ h3.conns[k].driver = "ended"
            /\ h3.conns[k].joined

\* C37: an H1 request that ends with Timeout, with an error while its
\* response body is read, or with an error inside redirect() leaves no handle
\* in the worker's state; a request that starts with no handle in the
\* worker's state dials in work_http1, and its Ok record has the
\* connection_time of that dial.
C37_FailedRequestDropsHandle ==
    [][ IsH1 =>
          /\ ( /\ nreq' # nreq
               /\ \/ result'.kind = "Timeout"
                  \/ rq.pc = "body" /\ result'.kind # "Ok"
                  \/ rq.hops > 0 /\ result'.kind # "Ok" ) =>
                client_state' = "none"
          /\ (rq.pc = "idle" /\ rq'.pc # "idle" /\ client_state = "none") =>
                /\ rq'.pc = "dns"
                /\ ~rq'.cached
                /\ rq'.send_request = "none"
          /\ (~rq.cached /\ rq.pc # "idle" /\ rq'.pc \in {"ready", "sent", "body"}) =>
                /\ rq'.connection_time # {}
                /\ "work_http1" \in rq'.opened
          /\ (nreq' # nreq /\ result'.kind = "Ok" /\ ~rq.cached) =>
                /\ result'.connection_time # {}
                /\ "work_http1" \in result'.opened
      ]_vars

\* With keep-alive enabled, a request that took the cached handle and
\* followed a redirect with it has timed out: the worker's state is empty.
C37_Witness ==
    /\ IsH1
    /\ ~client.disable_keepalive
    /\ rq.pc = "idle"
    /\ result.kind = "Timeout"
    /\ result.cached
    /\ result.hops = 1
    /\ result.opened = {}
    /\ client_state = "none"

C38_NoOverlappingIncarnations ==
    /\ [](\A s \in streams : ~s.old)
    /\ [](\A i \in Conns :
            cw[i].pc \in {"dial", "dial_err"} =>
                ~ \E s \in streams : s.c = i)
    /\ [][ \A i \in Conns :
             /\ (cw[i].pc = "join" /\ cw'[i].pc = "dial") =>
                   /\ cw[i].j = cfg.n_http2_parallel
                   /\ \A s \in streams :
                         s.c = i => (s.pc = "false" /\ s.k = cw[i].j)
             /\ (cw[i].pc # "join" /\ cw'[i].pc = "join") =>
                   \A s \in streams' :
                      s.c = i => (s.pc = "recv" /\ ~s.old /\ ~s.det)
       ]_vars

\* A connection-worker with two stream tasks per connection is back at the
\* dial after a join loop that ran to its end: both tasks have returned
\* reconnect and none is left.
C38_Witness ==
    \E i \in Conns :
       /\ cfg.work_type # "H1"
       /\ cfg.n_http2_parallel = 2
       /\ cw[i].pc = "dial"
       /\ cw[i].j = 2
       /\ ~cw[i].gone
       /\ nrep >= 2
       /\ ~ \E s \in streams : s.c = i

\* C39 as stated: no deadline-bounded paced emitter, with or without latency
\* correction, sends a token at an instant later than the deadline.
C39_NoTokenAfterDeadline ==
    [][ (~IsFixed /\ emitter'.n > emitter.n) =>
            now <= emitter.conf.dead_line ]_vars

\* C39 amended: the emitters of work_until_with_qps_latency_correction send
\* no token later than the deadline and exit at the first wake-up after it;
\* the emitters of work_until_with_qps test the deadline before each sleep
\* and not after it: they begin no sleep after the deadline, send the tokens
\* of at most one wake-up later than the deadline, and exit at the test that
\* follows that wake-up.
C39_DeadlineTestedOncePerWakeUp ==
    [][ ~IsFixed =>
          IF IsCorrected
            THEN /\ emitter'.n > emitter.n => now <= emitter.conf.dead_line
                 /\ (UntilEmitCorrected /\ now > emitter.conf.dead_line) =>
                       /\ emitter'.pc = "done"
                       /\ ~emitter'.open
                       /\ tokens' = tokens
                 /\ (emitter.pc = "sleep" /\ emitter'.pc = "done") =>
                       now > emitter.conf.dead_line
            ELSE /\ (emitter.pc # "sleep" /\ emitter'.pc = "sleep") =>
                       now <= emitter.conf.dead_line
                 /\ (emitter.pc = "sleep" /\ emitter'.pc # "sleep") =>
                       emitter'.pc = "check"
                 /\ (emitter.pc = "check" /\ emitter'.pc # "check") =>
                       /\ emitter'.n = emitter.n
                       /\ emitter'.pc = "done" <=> now > emitter.conf.dead_line
                       /\ emitter'.pc = "done" => ~emitter'.open
                 /\ (emitter'.n > emitter.n /\ now > emitter.conf.dead_line) =>
                       \A u \in emitter.last_emit : u <= emitter.conf.dead_line
      ]_vars

\* An emitter of work_until_with_qps has passed its test before the deadline,
\* has sent a token after it when its sleep ended, and has then exited.
C39_Witness ==
    /\ ~IsFixed
    /\ ~IsCorrected
    /\ emitter.pc = "done"
    /\ emitter.n >= 2
    /\ \E u \in emitter.last_emit : u > emitter.conf.dead_line

\* C34: open-loop deadline mode: work_until eventually returns, and not
\* before the deadline, for H1 (drain and abort) and for H2/H3; the emitter's
\* token is cancelled only when every worker future has been joined; once
\* cancelled the emitter exits, with the channel full or not and with or
\* without a receiver left, and sends nothing after it has exited; work_until
\* returns only after the emitter has exited.
C34_WorkUntilTerminates ==
    /\ <>(main_pc = "done")
    /\ [](main_pc = "done" =>
            /\ deadline_passed
            /\ emit_pc = "done"
            /\ ~tx_open)
    /\ [](cancel_token =>
            /\ join_i > cfg.n_connections
            /\ \A i \in Conns :
                  IF IsH1 THEN worker[i].pc \in {"done", "cancelled"}
                  ELSE cw[i].pc = "done")
    /\ (cancel_token ~> emit_pc = "done")
    /\ [][ emit_pc = "done" =>
             /\ emit_pc' = "done"
             /\ emitted' = emitted
             /\ rx_len' <= rx_len ]_vars
    /\ [][ emit_pc' = "done" /\ emit_pc # "done" => cancel_token ]_vars

\* work_until has returned in H1 drain mode; the emitter exited on its
\* cancellation with the bounded channel full and no worker left to receive.
C34_Witness ==
    /\ cfg.entry = "work_until"
    /\ IsH1
    /\ cfg.wait_ongoing
    /\ main_pc = "done"
    /\ emit_pc = "done"
    /\ rx_len = ChanCap
    /\ \A i \in Conns : worker[i].pc = "done"
    /\ nrep = cfg.n_connections

\* C35: closed-loop count mode: once the emitter has pushed its n_tasks
\* tokens and dropped the sender, every H1 worker, every stream task and
\* every connection-worker eventually ends and work() returns, whatever the
\* dials and requests return; work() returns only when all of them have
\* ended.
C35_WorkTerminates ==
    /\ emit_pc = "done" ~>
          /\ main_pc = "done"
          /\ streams = {}
          /\ \A i \in Conns :
                IF IsH1 THEN worker[i].pc = "done" ELSE cw[i].pc = "done"
    /\ [](emit_pc = "done" => (emitted = cfg.n_tasks /\ ~tx_open))
    /\ <>(emit_pc = "done" \/ main_pc = "panicked")
    /\ [](main_pc = "done" =>
            /\ emit_pc = "done"
            /\ streams = {}
            /\ \A i \in Conns :
                  /\ worker[i].outstanding = 0
                  /\ IF IsH1 THEN worker[i].pc = "done" ELSE cw[i].pc = "done")

\* work() has returned over H2/H3 after a run in which every token was used
\* up by a dial that failed.
C35_Witness ==
    /\ cfg.entry = "work"
    /\ ~IsH1
    /\ cfg.n_tasks = MaxTasks
    /\ main_pc = "done"
    /\ nrep = MaxTasks
    /\ rx_len = 0
    /\ cfg.n_connections = 1
    /\ \A i \in Conns : cw[i].pc = "done" /\ cw[i].j = 1 /\ ~cw[i].gone

====
